---- MODULE Spec2Model ----
(***************************************************************************)
(* Model of the Adapter subsystem of Adafruit_Blinka_bleio                 *)
(* (src/_bleio/common.py with src/_bleio/scan_entry.py and                 *)
(* src/_bleio/address.py): the scan life cycle of both backends, the       *)
(* device cache and connect.                                               *)
(*                                                                         *)
(* A start_scan call creates a Python generator; its body runs only when   *)
(* the consumer resumes it.  Each generator is followed from one blocking  *)
(* or suspension point to the next: the call, the first resumption, one    *)
(* scan window driven through the bridge, one readline of the capture      *)
(* stream, one resumption after a yield.                                   *)
(***************************************************************************)
EXTENDS Integers, Sequences, FiniteSets, TLC

VARIABLES
    gen,                  \* the start_scan generators, by order of the call;
                          \* field stopped is history: stop_scan has returned
                          \* since the body began
    scanning_in_progress, \* Adapter._scanning_in_progress
    scanner,              \* Adapter._scanner is not None
    hcitool_is_usable,    \* Adapter._hcitool_is_usable: "None", "True", "False"
    ble_backend,          \* Adapter.ble_backend
    hcitool,              \* Adapter._hcitool: "None", or the state of its process
    hcidump,              \* Adapter._hcidump: "None", or the state of its process
    stdout,               \* the line waiting in the standard output of _hcidump
    orphans,              \* running child processes that no handle refers to
    cached_devices,       \* Adapter._cached_devices
    connections,          \* Adapter._connections, each with the client it was built on
    bridge,               \* the module global adapter, Adapter._bleak_loop,
                          \* _bleak_thread_ready and the worker thread(s)
    caller,               \* the calling thread: where it is and what its last
                          \* call gave
    future,               \* the concurrent future await_bleak is waiting on
    links,                \* every Connection made so far and the state of its link
    selection,            \* history of the backend selection: probes run, what the
                          \* first and the latest query gave
    call,                 \* a call of one of the value classes' functions: the
                          \* function, its arguments and what it gave
    pb,                   \* a PacketBuffer: its queue, the notification callback
                          \* on the worker thread and readinto on the calling thread
    scan_run              \* one run of _scan_for_interval on the worker thread
                          \* and the BleakScanner objects made so far

\* the adapter's scanning state, its cache and its connection set
svars == <<gen, scanning_in_progress, scanner, hcitool_is_usable,
           ble_backend, hcitool, hcidump, stdout, orphans, cached_devices, connections>>

\* the same without the connection set
avars == <<gen, scanning_in_progress, scanner, hcitool_is_usable,
           ble_backend, hcitool, hcidump, stdout, orphans, cached_devices>>

\* everything but call
pvars == <<gen, scanning_in_progress, scanner, hcitool_is_usable,
           ble_backend, hcitool, hcidump, stdout, orphans, cached_devices,
           connections, bridge, caller, future, links, selection, pb, scan_run>>

\* the bridge to the worker thread, the calling thread, and history
bvars == <<bridge, caller, future, links, selection, call, pb, scan_run>>

vars == <<gen, scanning_in_progress, scanner, hcitool_is_usable,
          ble_backend, hcitool, hcidump, stdout, orphans, cached_devices, connections,
          bridge, caller, future, links, selection, call, pb, scan_run>>

-----------------------------------------------------------------------------
(* Bounds *)

\* number of start_scan calls followed
MaxScans == 2
\* devices reported by one quarter-second scan window
MaxWindow == 2
\* lines of one captured packet
MaxBuf == 2
\* live connections
MaxConns == 1
\* bytes of a prefixes argument and of a raw advertisement
MaxBytes == 4
\* notifications that reach a PacketBuffer
MaxPackets == 3
\* runs of _scan_for_interval
MaxRuns == 3
\* items of a mapping from advertising-data type to value
MaxItems == 2
\* the offset given to pack_into
MaxOffset == 2
\* Connection objects made while the bridge is followed step by step
MaxLinks == 2
\* worker threads that can be started
MaxThreads == 2

Gens == 1..MaxScans

-----------------------------------------------------------------------------
(* Data: what the radio environment can report *)

\* Address type tags of class Address
PUBLIC == 0
RANDOM_STATIC == 1

\* Devices in range: the address string bleak reports, the rssi of the
\* advertisement and its data_dict (advertising-data type -> value bytes).
Advert ==
    << [address |-> "D1", rssi |-> -90, data_dict |-> << <<9, <<65>>>> >>],
       [address |-> "D2", rssi |-> -70, data_dict |-> << <<9, <<65, 66>>>> >>],
       [address |-> "D3", rssi |-> -50, data_dict |-> << <<255, <<1, 2>>>> >>] >>

Devices == DOMAIN Advert

AddressStrings == {Advert[d].address : d \in Devices}

\* start_scan calls: the defaults (no prefixes, timeout None, minimum_rssi
\* -80), and two filtered calls with the one-record prefixes
\* [len=2][type 9]["A"].  A timeout <<>> is None, <<n>> is n time units.
ScanArgs ==
    { [prefixes |-> <<>>,         timeout |-> <<>>,  minimum_rssi |-> -80],
      [prefixes |-> <<2, 9, 65>>, timeout |-> <<1>>, minimum_rssi |-> -80],
      [prefixes |-> <<2, 9, 65>>, timeout |-> <<>>,  minimum_rssi |-> -60] }

\* capture lines by what they are to the reader and the parser:
\*   "adv"   first line of an advertising report that passes the filters
\*   "multi" first line of an LE meta-event with more than one packed report
\*   "bad"   first line of an LE meta-event advertising report that is cut
\*           short or holds text that is no hexadecimal at a fixed offset
\*   "cont"  a continuation line (begins with a space)
\* (a buffer that begins with a continuation line is no advertising report)
Lines == {"adv", "multi", "bad", "cont"}

\* every sequence of distinct devices of length at most n
RECURSIVE WindowsUpTo(_)
WindowsUpTo(n) ==
    IF n = 0 THEN { <<>> }
    ELSE LET shorter == WindowsUpTo(n - 1)
         IN shorter \cup
            { Append(w, d) : w \in {s \in shorter : Len(s) = n - 1},
                             d \in Devices }

Range(s) == { s[i] : i \in DOMAIN s }

Windows == { w \in WindowsUpTo(MaxWindow) : Cardinality(Range(w)) = Len(w) }

-----------------------------------------------------------------------------
(* Python objects used as dictionary keys *)

StrObj(s) == [cls |-> "str", v |-> s]

\* Address(string=s, address_type=t)
AddressObj(s, t) == [cls |-> "Address", string |-> s, type |-> t]

\* hash() of an address string: distinct strings, distinct multiples of 4
HashStr(s) == 4 * (CHOOSE d \in Devices : Advert[d].address = s)

\* a ^ b on naturals
RECURSIVE Xor(_, _)
Xor(a, b) ==
    IF a = 0 THEN b
    ELSE IF b = 0 THEN a
    ELSE ((a + b) % 2) + 2 * Xor(a \div 2, b \div 2)

\* Address.__hash__ and str.__hash__
PyHash(k) ==
    IF k.cls = "Address" THEN Xor(HashStr(k.string), k.type)
    ELSE HashStr(k.v)

\* Address.__eq__(self, other)
AddressEq(self, other) ==
    IF other.cls = "Address"
    THEN IF self.type # other.type THEN FALSE
         ELSE self.string = other.string
    ELSE FALSE

\* a == b between keys: str.__eq__ answers only for another str, and
\* Address.__eq__ decides every other pair
PyEq(a, b) ==
    IF a.cls = "str" /\ b.cls = "str" THEN a.v = b.v
    ELSE IF a.cls = "Address" THEN AddressEq(a, b)
    ELSE IF b.cls = "Address" THEN AddressEq(b, a)
    ELSE FALSE

\* dict.get(key): the stored key with the same hash that compares equal
DictHits(d, key) == { k \in DOMAIN d : PyHash(k) = PyHash(key) /\ PyEq(k, key) }

-----------------------------------------------------------------------------
(* ScanEntry *)

\* ScanEntry._from_bleak
FromBleak(d) ==
    [address   |-> AddressObj(Advert[d].address, RANDOM_STATIC),
     rssi      |-> Advert[d].rssi,
     data_dict |-> Advert[d].data_dict]

\* bytes[i : j] (0-based, end exclusive, clipped)
Slice(b, i, j) ==
    LET hi == IF j > Len(b) THEN Len(b) ELSE j
    IN IF i >= hi THEN <<>> ELSE SubSeq(b, i + 1, hi)

\* the while loop of ScanEntry._advertisement_fields over the original
\* advertisement bytes, from index idx
RECURSIVE FieldsFrom(_, _)
FieldsFrom(advertisement_bytes, idx) ==
    IF idx >= Len(advertisement_bytes) THEN <<>>
    ELSE LET field_length == advertisement_bytes[idx + 1]
         IN <<Slice(advertisement_bytes, idx + 1, idx + 1 + field_length)>>
            \o FieldsFrom(advertisement_bytes, idx + 1 + field_length)

\* ScanEntry._advertisement_fields: parsed from the advertisement bytes of
\* an entry that has them, made of type + data for every item of the
\* data_dict otherwise
AdvertisementFields(entry) ==
    IF "advertisement_bytes" \in DOMAIN entry
    THEN FieldsFrom(entry.advertisement_bytes, 0)
    ELSE [i \in DOMAIN entry.data_dict |->
             <<entry.data_dict[i][1]>> \o entry.data_dict[i][2]]

\* ScanEntry._separate_prefixes
RECURSIVE SeparateFrom(_, _)
SeparateFrom(prefixes_bytes, i) ==
    IF i >= Len(prefixes_bytes) THEN <<>>
    ELSE LET length == prefixes_bytes[i + 1]
         IN <<Slice(prefixes_bytes, i + 1, i + 1 + length)>>
            \o SeparateFrom(prefixes_bytes, i + 1 + length)

SeparatePrefixes(prefixes_bytes) == SeparateFrom(prefixes_bytes, 0)

\* bytes.startswith
StartsWith(field, prefix) ==
    /\ Len(prefix) <= Len(field)
    /\ SubSeq(field, 1, Len(prefix)) = prefix

\* the loop of ScanEntry.matches with a wrong final return
RECURSIVE MatchLoopReturnsTrue(_, _, _, _)
MatchLoopReturnsTrue(fields, prefixes, i, match_all) ==
    IF i > Len(prefixes) THEN TRUE
    ELSE LET prefix_matched ==
                 \E f \in DOMAIN fields : StartsWith(fields[f], prefixes[i])
         IN IF prefix_matched /\ ~match_all THEN TRUE
            ELSE IF ~prefix_matched /\ match_all THEN FALSE
            ELSE MatchLoopReturnsTrue(fields, prefixes, i + 1, match_all)

\* the loop of ScanEntry.matches answering True at the first matching
\* prefix in both modes
RECURSIVE MatchLoopFirstMatch(_, _, _, _)
MatchLoopFirstMatch(fields, prefixes, i, match_all) ==
    IF i > Len(prefixes) THEN match_all
    ELSE LET prefix_matched ==
                 \E f \in DOMAIN fields : StartsWith(fields[f], prefixes[i])
         IN IF prefix_matched THEN TRUE
            ELSE IF match_all THEN FALSE
            ELSE MatchLoopFirstMatch(fields, prefixes, i + 1, match_all)

\* the loop of ScanEntry.matches over the separated prefixes, from prefix i
RECURSIVE MatchLoop(_, _, _, _)
MatchLoop(fields, prefixes, i, match_all) ==
    IF i > Len(prefixes) THEN match_all
    ELSE LET prefix_matched ==
                 \E f \in DOMAIN fields : StartsWith(fields[f], prefixes[i])
         IN IF prefix_matched /\ ~match_all THEN TRUE
            ELSE IF ~prefix_matched /\ match_all THEN FALSE
            ELSE MatchLoop(fields, prefixes, i + 1, match_all)

\* ScanEntry.matches
Matches(entry, prefixes, match_all) ==
    IF Len(prefixes) = 0 THEN TRUE
    ELSE MatchLoop(AdvertisementFields(entry), SeparatePrefixes(prefixes),
                   1, match_all)

-----------------------------------------------------------------------------
(* Device cache *)

\* a _clear_device_cache that clears nothing
KeepDeviceCache(cache) == cache

\* Adapter._clear_device_cache
ClearDeviceCache(cache) == << >>

\* Adapter._cache_device: self._cached_devices[device.address] = device.
\* The record also remembers which scan cached it (history).
CacheDevice(cache, d, g) ==
    LET key == StrObj(Advert[d].address)
    IN [k \in DOMAIN cache \cup {key} |->
           IF k = key THEN [device |-> d, scan |-> g] ELSE cache[k]]

\* Adapter._cached_device: self._cached_devices.get(address)
CachedDevice(cache, address) ==
    LET hits == DictHits(cache, address)
    IN IF hits = {} THEN <<>> ELSE <<cache[CHOOSE k \in hits : TRUE]>>

\* the for-loop body with the device cached before the rssi test
RECURSIVE ScanItemsCacheFirst(_, _, _, _, _)
ScanItemsCacheFirst(items, cache, prefixes, minimum_rssi, g) ==
    IF items = <<>>
    THEN [cache |-> cache, value |-> <<>>, pending |-> <<>>]
    ELSE LET d == Head(items)
             cached == CacheDevice(cache, d, g)
         IN IF Advert[d].rssi < minimum_rssi
            THEN ScanItemsCacheFirst(Tail(items), cached, prefixes,
                                     minimum_rssi, g)
            ELSE LET scan_entry == FromBleak(d)
                 IN IF ~Matches(scan_entry, prefixes, FALSE)
                    THEN ScanItemsCacheFirst(Tail(items), cached, prefixes,
                                             minimum_rssi, g)
                    ELSE [cache |-> cached, value |-> <<scan_entry>>,
                          pending |-> Tail(items)]

\* The for-loop body of start_scan over the devices of one window, run
\* until the next yield or the end of the window.
RECURSIVE ScanItems(_, _, _, _, _)
ScanItems(items, cache, prefixes, minimum_rssi, g) ==
    IF items = <<>>
    THEN [cache |-> cache, value |-> <<>>, pending |-> <<>>]
    ELSE LET d == Head(items)
         IN IF Advert[d].rssi < minimum_rssi
            THEN ScanItems(Tail(items), cache, prefixes, minimum_rssi, g)
            ELSE LET cached == CacheDevice(cache, d, g)
                     scan_entry == FromBleak(d)
                 IN IF ~Matches(scan_entry, prefixes, FALSE)
                    THEN ScanItems(Tail(items), cached, prefixes,
                                   minimum_rssi, g)
                    ELSE [cache |-> cached, value |-> <<scan_entry>>,
                          pending |-> Tail(items)]

-----------------------------------------------------------------------------
(* Backend selection *)

\* Adapter._use_hcitool: the cached decision after the query, and what the
\* query gives: "True", "False" or the exception it raises.  probe is the
\* outcome of the no-op hcitool command.
UseHcitool(usable, backend, probe) ==
    IF usable # "None" THEN [usable |-> usable, result |-> usable]
    ELSE LET probed == IF probe THEN "True" ELSE "False"
         IN IF backend = "None" THEN [usable |-> probed, result |-> probed]
            ELSE IF backend = "bleak"
                 THEN [usable |-> "False", result |-> "False"]
            ELSE IF backend = "hcitool"
                 THEN IF probed = "False"
                      THEN [usable |-> "False", result |-> "EnvironmentError"]
                      ELSE [usable |-> "True", result |-> "True"]
            ELSE [usable |-> probed, result |-> "ValueError"]

\* the probe outcomes that matter to a query
Probes == IF hcitool_is_usable = "None" THEN BOOLEAN ELSE {FALSE}

-----------------------------------------------------------------------------
(* Child processes of the packet-capture backend *)

\* A handle is "None" or a Popen object, known by the state of its process:
\* "running" or "exited".

\* handle.poll() is None
Running(handle) == handle = "running"

\* the running processes without a handle, n of them before, once the
\* attribute that held handle is assigned something else without a wait
Orphaned(handle, n) == IF Running(handle) THEN n + 1 ELSE n

\* if handle: (if handle.poll() is None: send_signal(SIGINT); wait());
\* handle = None.  The process is over and nothing is orphaned.
Interrupted(handle, n) == n

\* Adapter._parse_hcidump_data on a flushed buffer, by its first line:
\* the entry to yield, nothing, NotImplementedError, or the ValueError of
\* int(b"", 16), int(b"zz", 16) or bytes.fromhex
ParseHcidumpData(buffered) ==
    IF Head(buffered) = "multi" THEN "NotImplementedError"
    ELSE IF Head(buffered) = "bad" THEN "ValueError"
    ELSE IF Head(buffered) = "adv" THEN "entry"
    ELSE "None"

-----------------------------------------------------------------------------
(* Generators *)

NoGen ==
    [pc |-> "none", prefixes |-> <<>>, timeout |-> <<>>, minimum_rssi |-> 0,
     elapsed |-> 0, pending |-> <<>>, value |-> <<>>, buffered |-> <<>>,
     line |-> "", returncode_none |-> TRUE, stopped |-> FALSE,
     error |-> "none"]

\* suspended at a yield
YieldPcs == {"yielded", "hyield"}
\* the body has begun and has not ended
InFlightPcs == {"bloop", "yielded", "hloop", "hread", "hyield"}

InFlight(g) == gen[g].pc \in InFlightPcs

\* timeout is None or time.time() - start < timeout
WithinTimeout(g) ==
    IF gen[g].timeout = <<>> THEN TRUE
    ELSE gen[g].elapsed < gen[g].timeout[1]

\* the generator object once its body is over: only its arguments are kept
Ended(g, pc) ==
    [gen EXCEPT ![g] = [NoGen EXCEPT !.pc = pc,
                                     !.prefixes = gen[g].prefixes,
                                     !.timeout = gen[g].timeout,
                                     !.minimum_rssi = gen[g].minimum_rssi]]

\* the generator fails: the exception e leaves the generator, nothing else
\* runs
Raise(g, e) == [Ended(g, "raised") EXCEPT ![g].error = e]

-----------------------------------------------------------------------------
(* The adapter singleton, its worker thread and the calling thread *)

\* the module before "adapter = Adapter()" has run
NotConstructed ==
    [adapter |-> "None", bleak_loop |-> FALSE, bleak_thread_ready |-> FALSE,
     bleak_thread |-> "none", threads |-> 0]

\* the module once Adapter.__init__ has returned and the singleton is bound:
\* the worker is in run_forever
Constructed ==
    [adapter |-> "Adapter", bleak_loop |-> TRUE, bleak_thread_ready |-> TRUE,
     bleak_thread |-> "running", threads |-> 1]

\* The calling thread.  pc: "import" (the module is being imported), "init"
\* (blocked in _bleak_thread_ready.wait()), "idle" (between calls), "await"
\* (blocked in future.result()), "cleanup" (in the loop of _cleanup),
\* "exited".  outcome is what its last call gave: "nothing" while one is
\* running, "returned", or the name of the exception it raised.
Importing ==
    [pc |-> "import", op |-> "none", left |-> <<>>, outcome |-> "nothing"]

Idle == [pc |-> "idle", op |-> "none", left |-> <<>>, outcome |-> "returned"]

NoFuture ==
    [state |-> "none", coro |-> "none", arg |-> 0, timeout |-> FALSE,
     value |-> "none"]

\* no function of the value classes has been called
NoCall == [fn |-> "none"]

\* no query of _use_hcitool yet
NoSelection == [probes |-> 0, first |-> "none", last |-> "none"]

\* no PacketBuffer made yet (buffer_size 0)
NoPacketBuffer ==
    [buffer_size |-> 0, queue |-> <<>>, arrived |-> 0,
     cb |-> [pc |-> "idle", data |-> [id |-> 0, len |-> 0], outcome |-> "none"],
     rd |-> [pc |-> "idle", buf_len |-> 0, result |-> 0, wrote |-> 0,
             outcome |-> "none"]]

\* no run of _scan_for_interval yet: handle is Adapter._scanner, 0 for None
\* or the place in objs of the BleakScanner it refers to; started is the
\* scanner this run started
NoRun == [pc |-> "idle", runs |-> 0, handle |-> 0, objs |-> <<>>,
          started |-> 0, outcome |-> "none"]

-----------------------------------------------------------------------------

Init ==
    /\ bridge = Constructed
    /\ caller = Idle
    /\ future = NoFuture
    /\ links = <<>>
    /\ selection = NoSelection
    /\ call = NoCall
    /\ pb = NoPacketBuffer
    /\ scan_run = NoRun
    /\ gen = [g \in Gens |-> NoGen]
    /\ scanning_in_progress = FALSE
    /\ scanner = FALSE
    /\ hcitool_is_usable = "None"
    /\ ble_backend = "None"
    /\ hcitool = "None"
    /\ hcidump = "None"
    /\ stdout = "empty"
    /\ orphans = [hcidump |-> 0, hcitool |-> 0]
    /\ cached_devices = << >>
    /\ connections = <<>>

\* adapter.start_scan(prefixes, timeout=..., minimum_rssi=...): only the
\* generator object is made
StartScan(g, args) ==
    /\ gen[g].pc = "none"
    /\ \A h \in Gens : h < g => gen[h].pc # "none"
    /\ gen' = [gen EXCEPT ![g] = [NoGen EXCEPT !.pc = "created",
                                                !.prefixes = args.prefixes,
                                                !.timeout = args.timeout,
                                                !.minimum_rssi = args.minimum_rssi]]
    /\ UNCHANGED <<scanning_in_progress, scanner, hcitool_is_usable,
                   ble_backend, hcitool, hcidump, stdout, orphans, cached_devices,
                   connections>>

\* first resumption: start_scan up to the loop of the selected backend,
\* with _start_scan_hcitool up to its loop
Begin(g, probe) ==
    /\ gen[g].pc = "created"
    /\ LET use == UseHcitool(hcitool_is_usable, ble_backend, probe)
       IN /\ cached_devices' = ClearDeviceCache(cached_devices)
          /\ hcitool_is_usable' = use.usable
          /\ IF use.result = "True"
             THEN /\ hcidump' = "running"
                  /\ stdout' = "fresh"
                  /\ orphans' = [orphans EXCEPT
                                    !.hcidump = Orphaned(hcidump, @)]
                  /\ hcitool' = IF hcitool = "None" THEN "running"
                                ELSE hcitool
                  /\ gen' = [gen EXCEPT ![g].pc = "hloop"]
                  /\ UNCHANGED scanning_in_progress
             ELSE IF use.result = "False"
             THEN /\ scanning_in_progress' = TRUE
                  /\ gen' = [gen EXCEPT ![g].pc = "bloop"]
                  /\ UNCHANGED <<hcitool, hcidump, stdout, orphans>>
             ELSE /\ gen' = [gen EXCEPT ![g].pc = "raised",
                                         ![g].error = use.result]
                  /\ UNCHANGED <<scanning_in_progress, hcitool, hcidump, stdout, orphans>>
    /\ UNCHANGED <<scanner, ble_backend, connections>>

\* library-mediated loop: the condition holds, one window is driven through
\* the bridge and its devices are gone through up to the first yield
BleakWindow(g, window) ==
    /\ gen[g].pc = "bloop"
    /\ scanning_in_progress /\ WithinTimeout(g)
    /\ LET r == ScanItems(window, cached_devices, gen[g].prefixes,
                          gen[g].minimum_rssi, g)
       IN /\ cached_devices' = r.cache
          /\ gen' = [gen EXCEPT ![g].pc = IF r.value = <<>> THEN "bloop"
                                          ELSE "yielded",
                                ![g].value = r.value,
                                ![g].pending = r.pending]
    /\ scanner' = TRUE
    /\ UNCHANGED <<scanning_in_progress, hcitool_is_usable,
                   ble_backend, hcitool, hcidump, stdout, orphans, connections>>

\* library-mediated loop: the condition fails and the generator ends
BleakFinish(g) ==
    /\ gen[g].pc = "bloop"
    /\ ~(scanning_in_progress /\ WithinTimeout(g))
    /\ gen' = Ended(g, "done")
    /\ UNCHANGED <<scanning_in_progress, scanner, hcitool_is_usable,
                   ble_backend, hcitool, hcidump, stdout, orphans, cached_devices,
                   connections>>

\* next() on a library-mediated generator suspended at its yield
BleakResume(g) ==
    /\ gen[g].pc = "yielded"
    /\ LET r == ScanItems(gen[g].pending, cached_devices, gen[g].prefixes,
                          gen[g].minimum_rssi, g)
       IN /\ cached_devices' = r.cache
          /\ gen' = [gen EXCEPT ![g].pc = IF r.value = <<>> THEN "bloop"
                                          ELSE "yielded",
                                ![g].value = r.value,
                                ![g].pending = r.pending]
    /\ UNCHANGED <<scanning_in_progress, scanner, hcitool_is_usable,
                   ble_backend, hcitool, hcidump, stdout, orphans, connections>>

\* history: generator h of gs sees a stop_scan return
Stopped(gs, h) ==
    IF gs[h].pc \in InFlightPcs THEN [gs[h] EXCEPT !.stopped = TRUE] ELSE gs[h]

\* Adapter.stop_scan on the child processes, the backend being hcitool
StopProcs(tool, dump, left) ==
    [hcitool |-> Interrupted(tool, left.hcitool),
     hcidump |-> Interrupted(dump, left.hcidump)]

\* packet-capture loop: the condition holds and the generator goes on to
\* block in readline
HciCheck(g) ==
    /\ gen[g].pc = "hloop"
    /\ gen[g].returncode_none /\ WithinTimeout(g)
    /\ gen' = [gen EXCEPT ![g].pc = "hread"]
    /\ UNCHANGED <<scanning_in_progress, scanner, hcitool_is_usable,
                   ble_backend, hcitool, hcidump, stdout, orphans, cached_devices,
                   connections>>

\* packet-capture loop: the condition fails, the generator calls stop_scan
\* and ends
HciFinish(g) ==
    /\ gen[g].pc = "hloop"
    /\ ~(gen[g].returncode_none /\ WithinTimeout(g))
    /\ orphans' = StopProcs(hcitool, hcidump, orphans)
    /\ hcitool' = "None"
    /\ hcidump' = "None"
    /\ stdout' = "empty"
    /\ scanning_in_progress' = FALSE
    /\ scanner' = FALSE
    /\ gen' = [h \in Gens |-> Stopped(Ended(g, "done"), h)]
    /\ UNCHANGED <<hcitool_is_usable, ble_backend, cached_devices, connections>>

\* packet-capture loop: readline returns (a line, or end of file once the
\* capture process is gone) and the body runs to the next yield or back to
\* the condition
HciRead(g) ==
    /\ gen[g].pc = "hread"
    /\ IF hcidump = "None"
       THEN \* self._hcidump is None: AttributeError
            /\ gen' = Raise(g, "AttributeError")
            /\ UNCHANGED stdout
       ELSE /\ stdout \notin {"empty", "fresh"} \/ ~Running(hcidump)
            /\ stdout' = "empty"
            /\ LET line == stdout
                   buffered == gen[g].buffered
                   alive == Running(hcidump)
               IN IF line \in {"empty", "fresh"}
                  THEN \* b""[0]: IndexError
                       gen' = Raise(g, "IndexError")
                  ELSE IF line # "cont" /\ buffered # <<>>
                  THEN LET parsed == ParseHcidumpData(buffered)
                       IN IF parsed \in {"NotImplementedError", "ValueError"}
                          THEN gen' = Raise(g, parsed)
                          ELSE IF parsed = "entry"
                          THEN gen' = [gen EXCEPT ![g].pc = "hyield",
                                                  ![g].value = <<"entry">>,
                                                  ![g].line = line]
                          ELSE gen' = [gen EXCEPT ![g].pc = "hloop",
                                                  ![g].buffered = <<line>>,
                                                  ![g].returncode_none = alive]
                  ELSE gen' = [gen EXCEPT ![g].pc = "hloop",
                                          ![g].buffered = Append(buffered, line),
                                          ![g].returncode_none = alive]
    /\ UNCHANGED <<scanning_in_progress, scanner, hcitool_is_usable,
                   ble_backend, hcitool, hcidump, orphans, cached_devices,
                   connections>>

\* next() on a packet-capture generator suspended at its yield:
\* buffered.clear(); buffered.append(line); returncode = self._hcidump.poll()
HciResume(g) ==
    /\ gen[g].pc = "hyield"
    /\ IF hcidump = "None"
       THEN \* self._hcidump.poll() on None: AttributeError
            gen' = Raise(g, "AttributeError")
       ELSE gen' = [gen EXCEPT ![g] =
                       [@ EXCEPT !.pc = "hloop", !.value = <<>>, !.line = "",
                                 !.buffered = <<gen[g].line>>,
                                 !.returncode_none = Running(hcidump)]]
    /\ UNCHANGED <<scanning_in_progress, scanner, hcitool_is_usable,
                   ble_backend, hcitool, hcidump, stdout, orphans, cached_devices,
                   connections>>

\* the consumer drops a generator that is suspended or was never resumed
\* (break out of the for loop, close()): GeneratorExit at the yield
Close(g) ==
    /\ gen[g].pc \in YieldPcs \cup {"created"}
    /\ gen' = Ended(g, "closed")
    /\ UNCHANGED <<scanning_in_progress, scanner, hcitool_is_usable,
                   ble_backend, hcitool, hcidump, stdout, orphans, cached_devices,
                   connections>>

\* adapter.stop_scan()
StopScan(probe) ==
    LET use == UseHcitool(hcitool_is_usable, ble_backend, probe)
    IN /\ hcitool_is_usable' = use.usable
       /\ IF use.result = "True"
          THEN /\ orphans' = StopProcs(hcitool, hcidump, orphans)
               /\ hcitool' = "None"
               /\ hcidump' = "None"
               /\ stdout' = "empty"
          ELSE UNCHANGED <<hcitool, hcidump, stdout, orphans>>
       /\ IF use.result \in {"True", "False"}
          THEN /\ scanning_in_progress' = FALSE
               /\ scanner' = FALSE
               /\ gen' = [h \in Gens |-> Stopped(gen, h)]
          ELSE UNCHANGED <<scanning_in_progress, scanner, gen>>
       /\ UNCHANGED <<ble_backend, cached_devices, connections>>

\* the client connect builds: BleakClient(device if device else address._bleak_address)
ClientFor(cache, address) ==
    LET device == CachedDevice(cache, address)
    IN IF device # <<>>
       THEN [kind |-> "device", address |-> Advert[device[1].device].address,
             scan |-> device[1].scan]
       ELSE [kind |-> "address", address |-> address.string, scan |-> 0]

\* connect arguments: Address(string="D2") with the default type and with PUBLIC
ConnectArgs == { AddressObj("D2", t) : t \in {PUBLIC, RANDOM_STATIC} }

\* adapter.connect(address, timeout=...): connected says whether the attempt
\* succeeds or times out (BluetoothError)
Connect(address, connected) ==
    /\ connected => Len(connections) < MaxConns
    /\ connections' =
          IF connected
          THEN Append(connections, [address |-> address,
                                    client |-> ClientFor(cached_devices, address)])
          ELSE connections
    /\ UNCHANGED <<gen, scanning_in_progress, scanner,
                   hcitool_is_usable, ble_backend, hcitool, hcidump, stdout, orphans,
                   cached_devices>>

-----------------------------------------------------------------------------
(* Environment *)

\* time passes for every timed generator in flight
Tick ==
    /\ \E g \in Gens : InFlight(g) /\ gen[g].timeout # <<>> /\ WithinTimeout(g)
    /\ gen' = [g \in Gens |->
                 IF InFlight(g) /\ gen[g].timeout # <<>> /\ WithinTimeout(g)
                 THEN [gen[g] EXCEPT !.elapsed = @ + 1]
                 ELSE gen[g]]
    /\ UNCHANGED <<scanning_in_progress, scanner, hcitool_is_usable,
                   ble_backend, hcitool, hcidump, stdout, orphans, cached_devices,
                   connections>>

\* the capture process the adapter holds writes one line to its standard
\* output; the first line of a process ("fresh": it wrote none after its
\* version lines) begins a packet
Deliver(line) ==
    /\ Running(hcidump) /\ stdout \in {"empty", "fresh"}
    /\ line = "cont" => stdout = "empty"
    /\ line = "cont" => \A g \in Gens : Len(gen[g].buffered) < MaxBuf
    /\ stdout' = line
    /\ UNCHANGED <<gen, scanning_in_progress, scanner,
                   hcitool_is_usable, ble_backend, hcitool, hcidump, orphans,
                   cached_devices, connections>>

\* the capture process ends by itself
ProcExit ==
    /\ Running(hcidump)
    /\ hcidump' = "exited"
    /\ UNCHANGED <<gen, scanning_in_progress, scanner,
                   hcitool_is_usable, ble_backend, hcitool, stdout, orphans,
                   cached_devices, connections>>

-----------------------------------------------------------------------------

(* Construction of the adapter *)

\* a test of the singleton that never finds it
SingletonMissing(a) == FALSE

\* if adapter:
SingletonExists(a) == a # "None"

\* an Event.wait() that does not block
WaitReturnsAtOnce(ready) == TRUE

\* self._bleak_thread_ready.wait() returns
WaitReturns(ready) == ready

\* Adapter(): __init__ up to the wait for the worker thread.  The module
\* does it once while it is imported; any later call is the user's.
AdapterInit ==
    /\ caller.pc \in {"import", "idle"}
    /\ IF SingletonExists(bridge.adapter)
       THEN /\ caller' = [caller EXCEPT !.outcome = "RuntimeError"]
            /\ UNCHANGED bridge
       ELSE /\ bridge.threads < MaxThreads
            /\ bridge' = [bridge EXCEPT !.bleak_loop = FALSE,
                                        !.bleak_thread_ready = FALSE,
                                        !.bleak_thread = "started",
                                        !.threads = @ + 1]
            /\ caller' = [caller EXCEPT !.pc = "init", !.outcome = "nothing"]
    /\ UNCHANGED <<svars, future, links, selection>>

\* worker, _run_bleak_loop: self._bleak_loop = asyncio.new_event_loop()
NewEventLoop ==
    /\ bridge.bleak_thread = "started"
    /\ bridge' = [bridge EXCEPT !.bleak_loop = TRUE, !.bleak_thread = "looped"]
    /\ UNCHANGED <<svars, caller, future, links, selection>>

\* worker, _run_bleak_loop: self._bleak_thread_ready.set(), then run_forever()
ThreadReady ==
    /\ bridge.bleak_thread = "looped"
    /\ bridge' = [bridge EXCEPT !.bleak_thread_ready = TRUE,
                                !.bleak_thread = "running"]
    /\ UNCHANGED <<svars, caller, future, links, selection>>

\* the wait returns, __init__ runs to its end (the fields it sets are those
\* of Init) and the module binds the singleton
InitReturn ==
    /\ caller.pc = "init"
    /\ WaitReturns(bridge.bleak_thread_ready)
    /\ bridge' = [bridge EXCEPT !.adapter = "Adapter"]
    /\ caller' = Idle
    /\ UNCHANGED <<svars, future, links, selection>>

-----------------------------------------------------------------------------
(* await_bleak and the calls that go through it *)

\* the calling thread c once its call is over with outcome: _cleanup goes on
\* with its loop after a disconnect that returned, and ends with the
\* exception otherwise
AfterCall(c, outcome) ==
    IF c.op = "cleanup"
    THEN IF outcome = "returned" THEN [c EXCEPT !.pc = "cleanup"]
         ELSE [c EXCEPT !.pc = "exited", !.left = <<>>, !.outcome = outcome]
    ELSE [c EXCEPT !.pc = "idle", !.outcome = outcome]

\* await_bleak(coro, timeout) up to future.result(timeout):
\* asyncio.run_coroutine_threadsafe(coro, self._bleak_loop)
AwaitBleak(c, coro, arg, timeout) ==
    IF bridge.bleak_loop
    THEN /\ future' = [state |-> "pending", coro |-> coro, arg |-> arg,
                       timeout |-> timeout, value |-> "none"]
         /\ caller' = [c EXCEPT !.pc = "await"]
    ELSE /\ future' = future
         /\ caller' = AfterCall(c, "AttributeError")

\* future.result(timeout) returns the result or raises the exception the
\* future holds
AwaitResult ==
    /\ caller.pc = "await"
    /\ future.state \in {"result", "exception"}
    /\ caller' = AfterCall(caller, IF future.state = "result" THEN "returned"
                                   ELSE future.value)
    /\ future' = NoFuture
    /\ UNCHANGED <<svars, bridge, links, selection>>

\* future.result(timeout) gives up: concurrent.futures.TimeoutError.  The
\* coroutine is left to the worker; a sleep changes nothing when it ends.
AwaitTimeout ==
    /\ caller.pc = "await"
    /\ future.state = "pending" /\ future.timeout
    /\ caller' = AfterCall(caller, "TimeoutError")
    /\ future' = NoFuture
    /\ UNCHANGED <<svars, bridge, links, selection>>

\* adapter.await_bleak(asyncio.sleep(...), timeout): timeout says whether
\* one is given
SleepCall(timeout) ==
    /\ caller.pc = "idle"
    /\ AwaitBleak([caller EXCEPT !.op = "sleep", !.outcome = "nothing"],
                  "sleep", 0, timeout)
    /\ UNCHANGED <<svars, bridge, links, selection>>

\* worker: the sleep is over
SleepAsync ==
    /\ bridge.bleak_thread = "running"
    /\ future.state = "pending" /\ future.coro = "sleep"
    /\ future' = [future EXCEPT !.state = "result", !.value = "None"]
    /\ UNCHANGED <<svars, bridge, caller, links, selection>>

-----------------------------------------------------------------------------
(* connect, disconnect and _cleanup through the bridge *)

\* what the connect attempt of _connect_async can come to
Attempts == {"connected", "timeout", "error"}

\* a _connect_async that lets the timeout of the attempt through
ConnectFailureRaw(attempt) ==
    IF attempt = "timeout" THEN "TimeoutError" ELSE "BleakError"

\* the exception _connect_async ends with: asyncio.TimeoutError becomes
\* BluetoothError, any other failure of the client goes through
ConnectFailure(attempt) ==
    IF attempt = "timeout" THEN "BluetoothError" ELSE "BleakError"

\* adapter.connect(address, timeout=...) up to the wait
ConnectCall(address) ==
    /\ caller.pc = "idle"
    /\ Len(links) < MaxLinks
    /\ AwaitBleak([caller EXCEPT !.op = "connect", !.outcome = "nothing"],
                  "_connect_async", address, FALSE)
    /\ UNCHANGED <<svars, bridge, links, selection>>

\* worker: _connect_async.  A Connection is known by the order in which it
\* was made.
ConnectAsync(attempt) ==
    /\ bridge.bleak_thread = "running"
    /\ future.state = "pending" /\ future.coro = "_connect_async"
    /\ IF attempt = "connected"
       THEN /\ connections' =
                  Append(connections,
                         [id |-> Len(links) + 1, address |-> future.arg,
                          client |-> ClientFor(cached_devices, future.arg)])
            /\ links' = Append(links, "connected")
            /\ future' = [future EXCEPT !.state = "result",
                                        !.value = "Connection"]
       ELSE /\ future' = [future EXCEPT !.state = "exception",
                                        !.value = ConnectFailure(attempt)]
            /\ UNCHANGED <<connections, links>>
    /\ UNCHANGED <<avars, bridge, caller, selection>>

\* connection in self._connections (identity: Connection defines no __eq__)
InList(list, id) == \E i \in DOMAIN list : list[i].id = id

\* self._connections.remove(connection), the connection being in the list
Remove(list, id) == SelectSeq(list, LAMBDA c : c.id # id)

\* Connection.disconnect by the calling thread c, up to the wait:
\* adapter.delete_connection(self), where list.remove raises ValueError for
\* a connection that is not in the list, then adapter.await_bleak(...)
Disconnect(c, id) ==
    IF InList(connections, id)
    THEN /\ connections' = Remove(connections, id)
         /\ AwaitBleak(c, "_disconnect_async", id, FALSE)
    ELSE /\ connections' = connections
         /\ future' = future
         /\ caller' = AfterCall(c, "ValueError")

\* connection.disconnect() by the user, on any Connection made so far
DisconnectCall(id) ==
    /\ caller.pc = "idle"
    /\ id \in DOMAIN links
    /\ Disconnect([caller EXCEPT !.op = "disconnect", !.outcome = "nothing"], id)
    /\ UNCHANGED <<avars, bridge, links, selection>>

\* worker: _disconnect_async; ok says whether the client's disconnect
\* succeeds or raises
DisconnectAsync(ok) ==
    /\ bridge.bleak_thread = "running"
    /\ future.state = "pending" /\ future.coro = "_disconnect_async"
    /\ IF ok
       THEN /\ links' = [links EXCEPT ![future.arg] = "disconnected"]
            /\ future' = [future EXCEPT !.state = "result", !.value = "None"]
       ELSE /\ links' = links
            /\ future' = [future EXCEPT !.state = "exception",
                                        !.value = "BleakError"]
    /\ UNCHANGED <<svars, bridge, caller, selection>>

\* atexit: _cleanup takes its copy of the connection list
Cleanup ==
    /\ caller.pc = "idle"
    /\ caller' = [caller EXCEPT
                     !.pc = "cleanup", !.op = "cleanup", !.outcome = "nothing",
                     !.left = [i \in DOMAIN connections |-> connections[i].id]]
    /\ UNCHANGED <<svars, bridge, future, links, selection>>

\* _cleanup: the next connection of the copy is disconnected, or the loop
\* is over
CleanupStep ==
    /\ caller.pc = "cleanup"
    /\ IF caller.left = <<>>
       THEN /\ caller' = [caller EXCEPT !.pc = "exited", !.outcome = "returned"]
            /\ UNCHANGED <<connections, future>>
       ELSE Disconnect([caller EXCEPT !.left = Tail(@)], Head(caller.left))
    /\ UNCHANGED <<avars, bridge, links, selection>>

\* a step the worker thread takes
WorkerStep ==
    \/ NewEventLoop
    \/ ThreadReady
    \/ SleepAsync
    \/ \E attempt \in Attempts : ConnectAsync(attempt)
    \/ \E ok \in BOOLEAN : DisconnectAsync(ok)

-----------------------------------------------------------------------------
(* The backend override *)

\* values given to adapter.ble_backend: the two backends, a value that is
\* neither, and None
Backends == {"None", "bleak", "hcitool", "hci"}

\* adapter.ble_backend = b: a plain attribute, nothing runs
SetBackend(b) ==
    /\ caller.pc = "idle"
    /\ ble_backend' = b
    /\ UNCHANGED <<gen, scanning_in_progress, scanner, hcitool_is_usable,
                   hcitool, hcidump, stdout, orphans, cached_devices,
                   connections>>

\* history: the selection after one more query of _use_hcitool.  The no-op
\* hcitool command is run only while _hcitool_is_usable is None.
Queried(sel, usable, backend, probe) ==
    LET use == UseHcitool(usable, backend, probe)
    IN [probes |-> IF usable = "None" THEN sel.probes + 1 ELSE sel.probes,
        first  |-> IF sel.first = "none" THEN use.result ELSE sel.first,
        last   |-> use.result]

-----------------------------------------------------------------------------
(* Calls of the value classes' functions, one call from the initial state *)

\* every sequence over S of length at most n
RECURSIVE SeqsUpTo(_, _)
SeqsUpTo(S, n) ==
    IF n = 0 THEN { <<>> }
    ELSE LET shorter == SeqsUpTo(S, n - 1)
         IN shorter \cup { Append(q, x) : q \in {r \in shorter : Len(r) = n - 1},
                                          x \in S }

\* byte values used in prefixes and raw advertisements: lengths 0..2, the
\* type "complete name" (9) and a letter
SomeBytes == {0, 1, 2, 9, 65}

ByteStrings == SeqsUpTo(SomeBytes, MaxBytes)

\* entries to match: built from a data_dict (library-mediated backend) or
\* from raw advertisement bytes (packet-capture backend); among the latter
\* an empty advertisement, a zero-length field and a truncated field
MatchEntries ==
    { [data_dict |-> << >>],
      [data_dict |-> << <<9, <<65>>>> >>],
      [data_dict |-> << <<9, <<65, 66>>>>, <<255, <<1, 2>>>> >>],
      [advertisement_bytes |-> << >>],
      [advertisement_bytes |-> <<2, 9, 65>>],
      [advertisement_bytes |-> <<3, 9, 65, 66, 3, 255, 1, 2>>],
      [advertisement_bytes |-> <<0, 2, 1, 9>>],
      [advertisement_bytes |-> <<3, 9, 65>>] }

\* scan_entry.matches(prefixes, match_all)
CallMatches(entry, prefixes, match_all) ==
    /\ call = NoCall
    /\ call' = [fn |-> "matches", entry |-> entry, prefixes |-> prefixes,
                match_all |-> match_all,
                result |-> Matches(entry, prefixes, match_all)]
    /\ UNCHANGED pvars

\* bytes((n,)): one byte, ValueError for a number above 255
ByteFits(n) == n <= 255

\* bytes((len(field),)) + field
EncodeFieldDataLength(field) == <<Len(field) - 1>> \o field

\* bytes((len(field),)) + field
EncodeField(field) == <<Len(field)>> \o field

\* b"".join(...) over the fields from index f
RECURSIVE JoinFrom(_, _)
JoinFrom(fields, f) ==
    IF f > Len(fields) THEN <<>>
    ELSE EncodeField(fields[f]) \o JoinFrom(fields, f + 1)

\* ScanEntry.advertisement_bytes: the original bytes when there are any,
\* the fields with a length byte in front of each otherwise
AdvertisementBytes(entry) ==
    IF "advertisement_bytes" \in DOMAIN entry /\ Len(entry.advertisement_bytes) > 0
    THEN [outcome |-> "returned", bytes |-> entry.advertisement_bytes]
    ELSE LET fields == AdvertisementFields(entry)
         IN IF \E f \in DOMAIN fields : ~ByteFits(Len(fields[f]))
            THEN [outcome |-> "ValueError"]
            ELSE [outcome |-> "returned", bytes |-> JoinFrom(fields, 1)]

\* the while loop of ScanEntry._decode_data from index i. data_dict maps a
\* key to the values decoded for it, in order: one value stands for the
\* value itself, several for the list the code makes of duplicates.
RECURSIVE DecodeFrom(_, _, _)
DecodeFrom(data, i, data_dict) ==
    IF i >= Len(data) THEN [outcome |-> "returned", data_dict |-> data_dict]
    ELSE LET item_length == data[i + 1]
             at == i + 1
         IN IF item_length = 0
            THEN [outcome |-> "returned", data_dict |-> data_dict]
            ELSE IF at >= Len(data)
            THEN [outcome |-> "struct.error"]
            ELSE LET key == data[at + 1]
                     value == Slice(data, at + 1, at + item_length)
                     values == IF key \in DOMAIN data_dict
                               THEN Append(data_dict[key], value)
                               ELSE <<value>>
                 IN DecodeFrom(data, at + item_length,
                               [k \in DOMAIN data_dict \cup {key} |->
                                   IF k = key THEN values ELSE data_dict[k]])

\* ScanEntry._decode_data
DecodeData(data) == DecodeFrom(data, 0, [k \in {} |-> <<>>])

\* a value that just fits behind a one-byte length, and one that does not
Fitting == [i \in 1..254 |-> 0]
TooLong == [i \in 1..255 |-> 0]

\* advertising-data types and values of the mappings
Types == {1, 9, 255}
Values == { <<>>, <<0>>, <<65>>, <<65, 66>>, Fitting, TooLong }

\* mappings with unique type keys, as the items of a dict in insertion order
Mappings ==
    { m \in SeqsUpTo(Types \X Values, MaxItems) :
        \A i, j \in DOMAIN m : i # j => m[i][1] # m[j][1] }

\* _decode_data(ScanEntry(data_dict=m, ...).advertisement_bytes)
CallRoundTrip(m) ==
    /\ call = NoCall
    /\ call' = [fn |-> "round_trip", m |-> m,
                result |-> LET encoded == AdvertisementBytes([data_dict |-> m])
                           IN IF encoded.outcome = "returned"
                              THEN DecodeData(encoded.bytes)
                              ELSE encoded]
    /\ UNCHANGED pvars

\* _decode_data(data), and the fields of ScanEntry(advertisement_bytes=data)
CallDecode(data) ==
    /\ call = NoCall
    /\ call' = [fn |-> "decode", data |-> data,
                result |-> DecodeData(data),
                fields |-> AdvertisementFields([advertisement_bytes |-> data])]
    /\ UNCHANGED pvars

-----------------------------------------------------------------------------
(* UUID *)

\* _BASE_STANDARD_UUID, least significant byte first
BASE_STANDARD_UUID == <<251, 52, 155, 95, 128, 0, 0, 128, 0, 16, 0, 0, 0, 0, 0, 0>>

\* A Python int n, which has no width, as hi * 2**16 + lo with lo in
\* 0..65535: 2**32 and -1 are values of it
PyInt(hi, lo) == [hi |-> hi, lo |-> lo]

\* a <= b and a < b on Python ints
IntLe(a, b) == a.hi < b.hi \/ (a.hi = b.hi /\ a.lo <= b.lo)
IntLt(a, b) == a.hi < b.hi \/ (a.hi = b.hi /\ a.lo < b.lo)

\* n.to_bytes(4, "little") for 0 <= n < 2**32
ToBytes(n) == <<n.lo % 256, n.lo \div 256, n.hi % 256, n.hi \div 256>>

\* int.from_bytes(b, "little") for two or four bytes
FromBytes(b) ==
    IF Len(b) = 2 THEN PyInt(0, b[1] + 256 * b[2])
    ELSE PyInt(b[3] + 256 * b[4], b[1] + 256 * b[2])

\* the hexadecimal digits "{:02x}" writes
HexDigits == <<"0", "1", "2", "3", "4", "5", "6", "7",
               "8", "9", "a", "b", "c", "d", "e", "f">>

\* [0-9a-f] (strings here are sequences of characters, in lower case)
IsHex(c) == \E v \in 1..16 : HexDigits[v] = c

\* "{:02x}".format(b)
Hex02(b) == <<HexDigits[(b \div 16) + 1], HexDigits[(b % 16) + 1]>>

\* int(s, 16) for at most four hexadecimal digits
RECURSIVE IntHex(_)
IntHex(s) ==
    IF Len(s) = 0 THEN 0
    ELSE 16 * IntHex(SubSeq(s, 1, Len(s) - 1))
         + ((CHOOSE v \in 1..16 : HexDigits[v] = s[Len(s)]) - 1)

\* UUID.standard_uuid128_from_uuid32, and the size its caller returns with
\* the bytes
StandardUuid128FromUuid32(uuid32, size) ==
    IF ~(IntLe(PyInt(0, 0), uuid32) /\ IntLt(uuid32, PyInt(65536, 0)))
    THEN [outcome |-> "ValueError"]
    ELSE [outcome |-> "returned", size |-> size,
          uuid128 |-> SubSeq(BASE_STANDARD_UUID, 1, 12) \o ToBytes(uuid32)]

\* "-0000-1000-8000-00805f9b34fb", the end of _STANDARD_UUID_RE_16 and _32
StandardEnd ==
    <<"-", "0", "0", "0", "0", "-", "1", "0", "0", "0", "-", "8", "0", "0", "0",
      "-", "0", "0", "8", "0", "5", "f", "9", "b", "3", "4", "f", "b">>

\* UUID._init_from_str
InitFromStr(uuid) ==
    IF /\ Len(uuid) = 36
       /\ \A i \in 1..36 : IF i \in {9, 14, 19, 24} THEN uuid[i] = "-"
                           ELSE IsHex(uuid[i])
    THEN IF SubSeq(uuid, 1, 4) = <<"0", "0", "0", "0">>
            /\ SubSeq(uuid, 9, 36) = StandardEnd
         THEN StandardUuid128FromUuid32(PyInt(0, IntHex(SubSeq(uuid, 5, 8))), 16)
         ELSE IF SubSeq(uuid, 9, 36) = StandardEnd
         THEN StandardUuid128FromUuid32(
                  PyInt(IntHex(SubSeq(uuid, 1, 4)), IntHex(SubSeq(uuid, 5, 8))), 32)
         ELSE LET hex == SelectSeq(uuid, IsHex)
              IN [outcome |-> "returned", size |-> 128,
                  uuid128 |-> [k \in 1..16 |->
                                  IntHex(SubSeq(hex, 33 - 2 * k, 34 - 2 * k))]]
    ELSE IF Len(uuid) \in {4, 8} /\ \A i \in DOMAIN uuid : IsHex(uuid[i])
    THEN StandardUuid128FromUuid32(
             IF Len(uuid) = 4 THEN PyInt(0, IntHex(uuid))
             ELSE PyInt(IntHex(SubSeq(uuid, 1, 4)), IntHex(SubSeq(uuid, 5, 8))),
             Len(uuid) * 4)
    ELSE [outcome |-> "ValueError"]

\* UUID._init_from_int: two ifs in a row, the second of which holds for
\* every number that got past the range test
InitFromInt(uuid) ==
    IF ~(IntLe(PyInt(0, 0), uuid) /\ IntLe(uuid, PyInt(65536, 0)))
    THEN [outcome |-> "ValueError"]
    ELSE LET first == IF IntLe(uuid, PyInt(1, 0)) THEN 16 ELSE 0
             size == IF IntLe(uuid, PyInt(65536, 0)) THEN 32 ELSE first
         IN StandardUuid128FromUuid32(uuid, size)

\* UUID._init_from_buf
InitFromBuf(uuid) ==
    IF Len(uuid) # 16 THEN [outcome |-> "ValueError"]
    ELSE [outcome |-> "returned", size |-> 128, uuid128 |-> uuid]

\* UUID.__init__: uuid is a str, an int or a buffer
UUID(uuid) ==
    IF uuid.type = "str" THEN InitFromStr(uuid.str)
    ELSE IF uuid.type = "int" THEN InitFromInt(uuid.int)
    ELSE InitFromBuf(uuid.buf)

\* UUID.uuid16 and UUID.uuid32, where the size allows them
uuid16(self) == FromBytes(SubSeq(self.uuid128, 13, 14))
uuid32(self) == FromBytes(SubSeq(self.uuid128, 13, 16))

\* UUID.is_standard_uuid
IsStandardUuid(self) ==
    \/ self.size = 16
    \/ self.size = 32
    \/ /\ SubSeq(self.uuid128, 1, 12) = SubSeq(BASE_STANDARD_UUID, 1, 12)
       /\ SubSeq(self.uuid128, 15, 16) = SubSeq(BASE_STANDARD_UUID, 15, 16)

\* UUID.__eq__ between two UUIDs
UuidEq(self, other) ==
    IF self.size = 16 /\ other.size = 16 THEN uuid16(self) = uuid16(other)
    ELSE IF self.size = 32 /\ other.size = 32 THEN uuid32(self) = uuid32(other)
    ELSE IF self.size = 128 /\ other.size = 128 THEN self.uuid128 = other.uuid128
    ELSE FALSE

\* UUID.__str__
UuidStr(self) ==
    LET h(k) == Hex02(self.uuid128[17 - k])
    IN h(1) \o h(2) \o h(3) \o h(4) \o <<"-">> \o h(5) \o h(6) \o <<"-">>
       \o h(7) \o h(8) \o <<"-">> \o h(9) \o h(10) \o <<"-">>
       \o h(11) \o h(12) \o h(13) \o h(14) \o h(15) \o h(16)

\* UUID.pack_into(buffer, offset).  buffer[offset:byte_size] = data replaces
\* the bytes from offset up to byte_size (none when offset >= byte_size)
\* by data: a bytearray takes data of another length and changes its own,
\* a memoryview raises ValueError.
PackInto(self, buffer, resizable, offset) ==
    LET byte_size == self.size \div 8
        data == IF self.size = 16 THEN SubSeq(self.uuid128, 13, 14)
                ELSE IF self.size = 32 THEN SubSeq(self.uuid128, 13, 16)
                ELSE self.uuid128
        stop == IF byte_size < offset THEN offset ELSE byte_size
    IN IF Len(buffer) - offset < byte_size
       THEN [outcome |-> "IndexError", buffer |-> buffer]
       ELSE IF stop - offset # Len(data) /\ ~resizable
       THEN [outcome |-> "ValueError", buffer |-> buffer]
       ELSE [outcome |-> "returned",
             buffer |-> Slice(buffer, 0, offset) \o data
                        \o Slice(buffer, stop, Len(buffer))]

\* arguments of UUID(): integers 0, 0x180F, 0xFFFF, 0x10000, 0x12345678,
\* 0xFFFFFFFF, 2**32 and -1; the strings "180f", "12345678" and "180";
\* buffers holding the standard UUIDs 0x180F and 0x12345678 in full, a
\* UUID that is not a standard one, and three bytes
UuidArgs ==
    { [type |-> "int", int |-> n] :
        n \in { PyInt(0, 0), PyInt(0, 6159), PyInt(0, 65535), PyInt(1, 0),
                PyInt(4660, 22136), PyInt(65535, 65535), PyInt(65536, 0),
                PyInt(-1, 65535) } }
    \cup { [type |-> "str", str |-> s] :
        s \in { <<"1", "8", "0", "f">>,
                <<"1", "2", "3", "4", "5", "6", "7", "8">>,
                <<"1", "8", "0">> } }
    \cup { [type |-> "buf", buf |-> b] :
        b \in { SubSeq(BASE_STANDARD_UUID, 1, 12) \o <<15, 24, 0, 0>>,
                SubSeq(BASE_STANDARD_UUID, 1, 12) \o <<120, 86, 52, 18>>,
                [k \in 1..16 |-> k],
                <<1, 2, 3>> } }

\* u = UUID(uuid); again = UUID(str(u)); again == u
CallUUID(uuid) ==
    /\ call = NoCall
    /\ call' = LET u == UUID(uuid)
               IN IF u.outcome = "returned"
                  THEN [fn |-> "UUID", uuid |-> uuid, u |-> u,
                        again |-> InitFromStr(UuidStr(u)),
                        equal |-> LET again == InitFromStr(UuidStr(u))
                                  IN again.outcome = "returned" /\ UuidEq(again, u)]
                  ELSE [fn |-> "UUID", uuid |-> uuid, u |-> u, again |-> u,
                        equal |-> FALSE]
    /\ UNCHANGED pvars

\* UUID(x) == UUID(y)
CallUuidEq(x, y) ==
    /\ call = NoCall
    /\ UUID(x).outcome = "returned" /\ UUID(y).outcome = "returned"
    /\ call' = [fn |-> "eq", self |-> UUID(x), other |-> UUID(y),
                result |-> UuidEq(UUID(x), UUID(y))]
    /\ UNCHANGED pvars

\* UUID(uuid).pack_into(buffer, offset) with buffer a bytearray (resizable)
\* or a memoryview of one, of the bytes 101, 102, ...
CallPackInto(uuid, length, resizable, offset) ==
    /\ call = NoCall
    /\ UUID(uuid).outcome = "returned"
    /\ call' = LET buffer == [i \in 1..length |-> 100 + i]
               IN [fn |-> "pack_into", self |-> UUID(uuid), buffer |-> buffer,
                   offset |-> offset, resizable |-> resizable,
                   result |-> PackInto(UUID(uuid), buffer, resizable, offset)]
    /\ UNCHANGED pvars

-----------------------------------------------------------------------------
(* Address, from bytes and from a string *)

\* Address.__init__(address, address_type, string); <<>> is None (or empty,
\* which the tests of the code do not tell from None)
AddressInit(address, address_type, string) ==
    IF (Len(address) > 0 /\ Len(string) > 0) \/ (Len(address) = 0 /\ Len(string) = 0)
    THEN [outcome |-> "ValueError"]
    ELSE IF Len(address) > 0 /\ Len(address) # 6
    THEN [outcome |-> "ValueError"]
    ELSE IF ~(PUBLIC <= address_type /\ address_type <= 3)
    THEN [outcome |-> "ValueError"]
    ELSE [outcome |-> "returned", address_bytes |-> address, string |-> string,
          type |-> address_type]

\* ":".join("{:02x}".format(b) for b in address_bytes), without reversed()
AddressStringForward(address_bytes) ==
    LET h(k) == Hex02(address_bytes[k])
    IN h(1) \o <<":">> \o h(2) \o <<":">> \o h(3) \o <<":">> \o h(4)
       \o <<":">> \o h(5) \o <<":">> \o h(6)

\* ":".join("{:02x}".format(b) for b in reversed(self.address_bytes))
AddressString(address_bytes) ==
    LET h(k) == Hex02(address_bytes[7 - k])
    IN h(1) \o <<":">> \o h(2) \o <<":">> \o h(3) \o <<":">> \o h(4)
       \o <<":">> \o h(5) \o <<":">> \o h(6)

\* Address.address_bytes of an address that holds a string only: the six
\* groups of _MAC_ADDRESS_RE, reversed, or ValueError
AddressBytes(string) ==
    IF /\ Len(string) = 17
       /\ \A i \in 1..17 : IF i % 3 = 0 THEN string[i] \in {"-", ":"}
                           ELSE IsHex(string[i])
    THEN [outcome |-> "returned",
          bytes |-> [k \in 1..6 |->
                        IntHex(SubSeq(string, 3 * (6 - k) + 1, 3 * (6 - k) + 2))]]
    ELSE [outcome |-> "ValueError"]

\* Address.__eq__(self, other) between two addresses: "ValueError" when
\* the bytes of other are asked for and its string holds none
AddressEquals(self, other) ==
    IF self.type # other.type THEN "False"
    ELSE IF Len(self.address_bytes) > 0
    THEN IF Len(other.address_bytes) > 0
         THEN IF self.address_bytes = other.address_bytes THEN "True" ELSE "False"
         ELSE IF AddressBytes(other.string).outcome # "returned" THEN "ValueError"
         ELSE IF self.address_bytes = AddressBytes(other.string).bytes
              THEN "True" ELSE "False"
    ELSE IF Len(self.string) > 0
    THEN IF self.string = other.string THEN "True" ELSE "False"
    ELSE "False"

\* the bytes of the addresses constructed
AddressByteValues == {0, 26, 255}

\* a = Address(address, address_type); s = a.string, which a keeps;
\* b = Address(string=s, address_type=address_type); b == a; a == b
CallAddressRoundTrip(address, address_type) ==
    /\ call = NoCall
    /\ call' = LET made == AddressInit(address, address_type, <<>>)
                   a == [made EXCEPT !.string = AddressString(made.address_bytes)]
                   b == AddressInit(<<>>, address_type, a.string)
               IN [fn |-> "address_round_trip", address |-> address,
                   address_type |-> address_type, a |-> a, b |-> b,
                   b_eq_a |-> AddressEquals(b, a),
                   a_eq_b |-> AddressEquals(a, b),
                   b_bytes |-> AddressBytes(b.string)]
    /\ UNCHANGED pvars

\* a read of the property .string: the address afterwards
ReadString(a) ==
    IF Len(a.string) > 0 THEN a
    ELSE [a EXCEPT !.string = AddressString(a.address_bytes)]

\* a read of the property .address_bytes: the address afterwards (as it was
\* when the read raises ValueError)
ReadAddressBytes(a) ==
    IF Len(a.address_bytes) > 0 THEN a
    ELSE IF AddressBytes(a.string).outcome = "returned"
    THEN [a EXCEPT !.address_bytes = AddressBytes(a.string).bytes]
    ELSE a

\* other after self == other: __eq__ reads other.address_bytes when the
\* types agree and self holds bytes
AfterEquals(self, other) ==
    IF self.type = other.type /\ Len(self.address_bytes) > 0
    THEN ReadAddressBytes(other) ELSE other

\* the addresses compared: built from six bytes, from the string of six
\* bytes or from a string that is no MAC address (a UUID, as on macOS), and
\* then left alone or read through .string or .address_bytes
AddressObjects ==
    LET bytes6 == { <<0, 0, 0, 0, 0, 26>>, <<255, 0, 0, 0, 0, 26>> }
        uuid == [i \in 1..36 |-> IF i \in {9, 14, 19, 24} THEN "-" ELSE "a"]
        strings == { AddressString(b) : b \in bytes6 } \cup {uuid}
        built == { AddressInit(b, t, <<>>) : b \in bytes6, t \in {PUBLIC, RANDOM_STATIC} }
                 \cup { AddressInit(<<>>, t, x) : x \in strings, t \in {PUBLIC, RANDOM_STATIC} }
    IN built \cup { ReadString(a) : a \in built }
             \cup { ReadAddressBytes(a) : a \in built }

\* a == b and then b == a
CallAddressEq(a, b) ==
    /\ call = NoCall
    /\ call' = [fn |-> "address_eq", a |-> a, b |-> b,
                a_eq_b |-> AddressEquals(a, b),
                b_eq_a |-> AddressEquals(AfterEquals(a, b), a)]
    /\ UNCHANGED pvars

-----------------------------------------------------------------------------
(* The parser of captured packets, on the text of one packet *)

\* if rssi > 127: rssi = (256 - rssi) * -1, one too high
SignedRssiFrom255(rssi) == IF rssi > 127 THEN (255 - rssi) * (-1) ELSE rssi

\* if rssi > 127: rssi = (256 - rssi) * -1
SignedRssi(rssi) == IF rssi > 127 THEN (256 - rssi) * (-1) ELSE rssi

\* Adapter._parse_hcidump_data, the body of "if subevent_code == 0x02".
\* A packet holds the two hexadecimal digits of each field of its text; of
\* the entry made, the rssi and the advertisement bytes are kept.
ParseAdvertisingReport(packet, prefixes, minimum_rssi, active) ==
    LET num_reports == IntHex(packet.num_reports)
        rssi == SignedRssi(IntHex(packet.rssi))
        event_type == IntHex(packet.event_type)
        scan_entry == [advertisement_bytes |-> packet.data]
    IN IF num_reports > 1 THEN [outcome |-> "NotImplementedError"]
       ELSE IF rssi = 127 \/ rssi < minimum_rssi THEN [outcome |-> "None"]
       ELSE IF event_type = 4 /\ ~active THEN [outcome |-> "None"]
       ELSE IF Matches(scan_entry, prefixes, FALSE)
       THEN [outcome |-> "entry", rssi |-> rssi, scan_entry |-> scan_entry]
       ELSE [outcome |-> "None"]

\* Adapter._parse_hcidump_data with every LE meta-event that is no
\* advertising report refused
ParseHcidumpPacketStrict(packet, prefixes, minimum_rssi, active) ==
    IF packet.le_meta_event
    THEN IF IntHex(packet.subevent_code) = 2
         THEN ParseAdvertisingReport(packet, prefixes, minimum_rssi, active)
         ELSE [outcome |-> "NotImplementedError"]
    ELSE [outcome |-> "None"]

\* Adapter._parse_hcidump_data on the text of a flushed packet;
\* le_meta_event is buffered[0].startswith(b"> 04 3E")
ParseHcidumpPacket(packet, prefixes, minimum_rssi, active) ==
    IF packet.le_meta_event
    THEN IF IntHex(packet.subevent_code) = 2
         THEN ParseAdvertisingReport(packet, prefixes, minimum_rssi, active)
         ELSE [outcome |-> "None"]
    ELSE [outcome |-> "None"]

\* flushed packets: HCI events that are LE meta-events or not, with the
\* subevents 0x01, 0x02 and 0x0d, up to two reports, event types 0x00 and
\* 0x04 (scan response), rssi bytes on both sides of 127, of the thresholds
\* and of 0x9a, and the advertisement of a name "A" or none
Packets ==
    [le_meta_event : BOOLEAN,
     subevent_code : {Hex02(n) : n \in {1, 2, 13}},
     num_reports   : {Hex02(n) : n \in 0..2},
     event_type    : {Hex02(n) : n \in {0, 4}},
     rssi          : {Hex02(n) : n \in {0, 126, 127, 128, 145, 146, 154,
                                        175, 176, 255}},
     data          : { <<>>, <<2, 9, 65>> }]

\* _parse_hcidump_data(buffered, prefixes, minimum_rssi, active)
CallParse(packet, prefixes, minimum_rssi, active) ==
    /\ call = NoCall
    /\ call' = [fn |-> "parse", packet |-> packet, prefixes |-> prefixes,
                minimum_rssi |-> minimum_rssi, active |-> active,
                result |-> ParseHcidumpPacket(packet, prefixes, minimum_rssi,
                                              active)]
    /\ UNCHANGED pvars

-----------------------------------------------------------------------------
(* One scan window on the worker thread, stop_scan on another thread *)

\* start_scan with the library-mediated backend, up to its loop:
\* self._scanning_in_progress = True
BeginScanning ==
    /\ scan_run.pc = "idle" /\ ~scanning_in_progress
    /\ scanning_in_progress' = TRUE
    /\ UNCHANGED <<scan_run, scanner>>

\* the loop condition of start_scan holds and the coroutine
\* _scan_for_interval is submitted to the worker
WindowSubmit ==
    /\ scan_run.pc = "idle" /\ scanning_in_progress
    /\ scan_run.runs < MaxRuns
    /\ scan_run' = [scan_run EXCEPT !.pc = "begin", !.runs = @ + 1,
                                    !.started = 0, !.outcome = "none"]
    /\ UNCHANGED <<scanner, scanning_in_progress>>

\* the coroutine begins:
\* if not self._scanner: self._scanner = BleakScanner(...)
ScanForInterval ==
    /\ scan_run.pc = "begin"
    /\ scan_run' = IF scan_run.handle = 0
                   THEN [scan_run EXCEPT !.pc = "start",
                                         !.objs = Append(@, "new"),
                                         !.handle = Len(scan_run.objs) + 1]
                   ELSE [scan_run EXCEPT !.pc = "start"]
    /\ scanner' = TRUE
    /\ UNCHANGED scanning_in_progress

\* await self._scanner.start(): AttributeError when the attribute is None
RunStart ==
    /\ scan_run.pc = "start"
    /\ scan_run' = IF scan_run.handle = 0
                   THEN [scan_run EXCEPT !.pc = "idle", !.outcome = "AttributeError"]
                   ELSE [scan_run EXCEPT !.pc = "sleep",
                                         !.objs[scan_run.handle] = "started",
                                         !.started = scan_run.handle]
    /\ UNCHANGED <<scanner, scanning_in_progress>>

\* await asyncio.sleep(interval)
RunSleep ==
    /\ scan_run.pc = "sleep"
    /\ scan_run' = [scan_run EXCEPT !.pc = "stop"]
    /\ UNCHANGED <<scanner, scanning_in_progress>>

\* await self._scanner.stop()
RunStop ==
    /\ scan_run.pc = "stop"
    /\ scan_run' = IF scan_run.handle = 0
                   THEN [scan_run EXCEPT !.pc = "idle", !.outcome = "AttributeError"]
                   ELSE [scan_run EXCEPT !.pc = "return",
                                         !.objs[scan_run.handle] = "stopped"]
    /\ UNCHANGED <<scanner, scanning_in_progress>>

\* return self._scanner.discovered_devices_and_advertisement_data.values()
RunReturn ==
    /\ scan_run.pc = "return"
    /\ scan_run' = IF scan_run.handle = 0
                   THEN [scan_run EXCEPT !.pc = "idle", !.outcome = "AttributeError"]
                   ELSE [scan_run EXCEPT !.pc = "idle", !.outcome = "returned"]
    /\ UNCHANGED <<scanner, scanning_in_progress>>

\* adapter.stop_scan() with the library-mediated backend, on a thread other
\* than the worker: the two assignments that end stop_scan
StopScanMeanwhile ==
    /\ scan_run' = [scan_run EXCEPT !.handle = 0]
    /\ scanning_in_progress' = FALSE
    /\ scanner' = FALSE

-----------------------------------------------------------------------------
(* PacketBuffer: the notification callback against readinto *)

\* A packet is known by the order of its arrival (id) and its length.  The
\* callback and readinto are followed one queue operation at a time: every
\* operation of queue.Queue is atomic, a sequence of them is not.

\* PacketBuffer(characteristic, buffer_size=buffer_size)
PacketBufferInit(buffer_size) ==
    /\ pb.buffer_size = 0
    /\ pb' = [pb EXCEPT !.buffer_size = buffer_size]

\* _notify_callback(data) with a packet of len bytes: if self._queue.full()
NotifyCallback(len) ==
    /\ pb.buffer_size > 0 /\ pb.cb.pc = "idle" /\ pb.arrived < MaxPackets
    /\ pb' = [pb EXCEPT !.arrived = @ + 1,
                        !.cb = [pc |-> IF Len(pb.queue) >= pb.buffer_size
                                       THEN "get" ELSE "put",
                                data |-> [id |-> pb.arrived + 1, len |-> len],
                                outcome |-> "none"]]

\* self._queue.get_nowait() of the callback: queue.Empty from an empty queue
NotifyGet ==
    /\ pb.cb.pc = "get"
    /\ pb' = IF pb.queue = <<>>
             THEN [pb EXCEPT !.cb.pc = "idle", !.cb.outcome = "Empty"]
             ELSE [pb EXCEPT !.queue = Tail(@), !.cb.pc = "put"]

\* self._queue.put_nowait(data): queue.Full into a full queue
NotifyPut ==
    /\ pb.cb.pc = "put"
    /\ pb' = IF Len(pb.queue) >= pb.buffer_size
             THEN [pb EXCEPT !.cb.pc = "idle", !.cb.outcome = "Full"]
             ELSE [pb EXCEPT !.queue = Append(@, pb.cb.data),
                             !.cb.pc = "idle", !.cb.outcome = "returned"]

\* readinto(buf) with a destination of buf_len bytes: if self._queue.empty():
\* return 0
Readinto(buf_len) ==
    /\ pb.buffer_size > 0 /\ pb.rd.pc = "idle"
    /\ pb' = IF pb.queue = <<>>
             THEN [pb EXCEPT !.rd = [pc |-> "idle", buf_len |-> buf_len,
                                     result |-> 0, wrote |-> 0,
                                     outcome |-> "returned"]]
             ELSE [pb EXCEPT !.rd = [pc |-> "get", buf_len |-> buf_len,
                                     result |-> 0, wrote |-> 0,
                                     outcome |-> "none"]]

\* packet = self._queue.get_nowait() and the rest of readinto: wrote is the
\* packet copied into buf, 0 when nothing was written
ReadintoGet ==
    /\ pb.rd.pc = "get"
    /\ pb' = IF pb.queue = <<>>
             THEN [pb EXCEPT !.rd.pc = "idle", !.rd.outcome = "Empty"]
             ELSE LET packet == Head(pb.queue)
                  IN IF packet.len > pb.rd.buf_len
                     THEN [pb EXCEPT !.queue = Tail(@), !.rd.pc = "idle",
                                     !.rd.result = pb.rd.buf_len - packet.len,
                                     !.rd.outcome = "returned"]
                     ELSE [pb EXCEPT !.queue = Tail(@), !.rd.pc = "idle",
                                     !.rd.result = packet.len,
                                     !.rd.wrote = packet.id,
                                     !.rd.outcome = "returned"]

\* The scan life cycle, the cache and connect, from a constructed adapter.
\* The bridge is followed step by step in BridgeSpec and the backend
\* override in BackendSpec; here a call is one step and they stay as they are.
Next ==
    \/ \E g \in Gens, args \in ScanArgs : StartScan(g, args) /\ UNCHANGED bvars
    \/ \E g \in Gens, probe \in Probes : Begin(g, probe) /\ UNCHANGED bvars
    \/ \E g \in Gens, w \in Windows : BleakWindow(g, w) /\ UNCHANGED bvars
    \/ \E g \in Gens : BleakFinish(g) /\ UNCHANGED bvars
    \/ \E g \in Gens : BleakResume(g) /\ UNCHANGED bvars
    \/ \E g \in Gens : HciCheck(g) /\ UNCHANGED bvars
    \/ \E g \in Gens : HciFinish(g) /\ UNCHANGED bvars
    \/ \E g \in Gens : HciRead(g) /\ UNCHANGED bvars
    \/ \E g \in Gens : HciResume(g) /\ UNCHANGED bvars
    \/ \E g \in Gens : Close(g) /\ UNCHANGED bvars
    \/ \E probe \in Probes : StopScan(probe) /\ UNCHANGED bvars
    \/ \E a \in ConnectArgs, c \in BOOLEAN : Connect(a, c) /\ UNCHANGED bvars
    \/ Tick /\ UNCHANGED bvars
    \/ \E l \in Lines : Deliver(l) /\ UNCHANGED bvars
    \/ ProcExit /\ UNCHANGED bvars

Spec == Init /\ [][Next]_vars

\* one step of generator g's own code
GenStep(g) ==
    /\ \/ \E probe \in Probes : Begin(g, probe)
       \/ \E w \in Windows : BleakWindow(g, w)
       \/ BleakFinish(g)
       \/ BleakResume(g)
       \/ HciCheck(g)
       \/ HciFinish(g)
       \/ HciRead(g)
       \/ HciResume(g)
    /\ UNCHANGED bvars

\* The module is imported, the adapter is constructed, and calls go through
\* the bridge one step of one thread at a time.  No scan is made.
BridgeInit ==
    /\ bridge = NotConstructed
    /\ caller = Importing
    /\ future = NoFuture
    /\ links = <<>>
    /\ selection = NoSelection
    /\ call = NoCall
    /\ pb = NoPacketBuffer
    /\ scan_run = NoRun
    /\ gen = [g \in Gens |-> NoGen]
    /\ scanning_in_progress = FALSE
    /\ scanner = FALSE
    /\ hcitool_is_usable = "None"
    /\ ble_backend = "None"
    /\ hcitool = "None"
    /\ hcidump = "None"
    /\ stdout = "empty"
    /\ orphans = [hcidump |-> 0, hcitool |-> 0]
    /\ cached_devices = << >>
    /\ connections = <<>>

BridgeNext ==
    \/ AdapterInit /\ UNCHANGED <<call, pb, scan_run>>
    \/ NewEventLoop /\ UNCHANGED <<call, pb, scan_run>>
    \/ ThreadReady /\ UNCHANGED <<call, pb, scan_run>>
    \/ InitReturn /\ UNCHANGED <<call, pb, scan_run>>
    \/ \E timeout \in BOOLEAN : SleepCall(timeout) /\ UNCHANGED <<call, pb, scan_run>>
    \/ SleepAsync /\ UNCHANGED <<call, pb, scan_run>>
    \/ AwaitResult /\ UNCHANGED <<call, pb, scan_run>>
    \/ AwaitTimeout /\ UNCHANGED <<call, pb, scan_run>>
    \/ \E a \in ConnectArgs : ConnectCall(a) /\ UNCHANGED <<call, pb, scan_run>>
    \/ \E attempt \in Attempts : ConnectAsync(attempt) /\ UNCHANGED <<call, pb, scan_run>>
    \/ \E id \in 1..MaxLinks : DisconnectCall(id) /\ UNCHANGED <<call, pb, scan_run>>
    \/ \E ok \in BOOLEAN : DisconnectAsync(ok) /\ UNCHANGED <<call, pb, scan_run>>
    \/ Cleanup /\ UNCHANGED <<call, pb, scan_run>>
    \/ CleanupStep /\ UNCHANGED <<call, pb, scan_run>>

BridgeSpec == BridgeInit /\ [][BridgeNext]_vars

\* The backend selection: the override is set at any time, and start_scan
\* (at its first resumption) and stop_scan query the selection.  Generators
\* are followed no further than their first resumption.
BackendNext ==
    \/ \E b \in Backends : SetBackend(b) /\ UNCHANGED bvars
    \/ \E g \in Gens, args \in ScanArgs : StartScan(g, args) /\ UNCHANGED bvars
    \/ \E g \in Gens, probe \in Probes :
          /\ Begin(g, probe)
          /\ selection' = Queried(selection, hcitool_is_usable, ble_backend, probe)
          /\ UNCHANGED <<bridge, caller, future, links, call, pb, scan_run>>
    \/ \E probe \in Probes :
          /\ StopScan(probe)
          /\ selection' = Queried(selection, hcitool_is_usable, ble_backend, probe)
          /\ UNCHANGED <<bridge, caller, future, links, call, pb, scan_run>>
    \/ \E g \in Gens : Close(g) /\ UNCHANGED bvars

BackendSpec == Init /\ [][BackendNext]_vars

\* everything but pb
qvars == <<svars, bridge, caller, future, links, selection, call, scan_run>>

\* One PacketBuffer: notifications arrive on the worker thread while the
\* calling thread reads.
PacketNext ==
    \/ \E buffer_size \in 1..2 : PacketBufferInit(buffer_size) /\ UNCHANGED qvars
    \/ \E len \in 1..2 : NotifyCallback(len) /\ UNCHANGED qvars
    \/ NotifyGet /\ UNCHANGED qvars
    \/ NotifyPut /\ UNCHANGED qvars
    \/ \E buf_len \in 1..2 : Readinto(buf_len) /\ UNCHANGED qvars
    \/ ReadintoGet /\ UNCHANGED qvars

PacketSpec == Init /\ [][PacketNext]_vars

\* everything but scan_run, scanner and scanning_in_progress
wvars == <<gen, hcitool_is_usable, ble_backend, hcitool, hcidump, stdout,
           orphans, cached_devices, connections, bridge, caller, future,
           links, selection, call, pb>>

\* Scan windows run one after the other on the worker thread while another
\* thread may call stop_scan at any moment.
WindowNext ==
    \/ BeginScanning /\ UNCHANGED wvars
    \/ WindowSubmit /\ UNCHANGED wvars
    \/ ScanForInterval /\ UNCHANGED wvars
    \/ RunStart /\ UNCHANGED wvars
    \/ RunSleep /\ UNCHANGED wvars
    \/ RunStop /\ UNCHANGED wvars
    \/ RunReturn /\ UNCHANGED wvars
    \/ StopScanMeanwhile /\ UNCHANGED wvars

WindowSpec == Init /\ [][WindowNext]_vars

\* One call of one function, with its arguments drawn from the sets above.
PureNext ==
    \/ \E e \in MatchEntries, p \in ByteStrings, all \in BOOLEAN :
          CallMatches(e, p, all)
    \/ \E m \in Mappings : CallRoundTrip(m)
    \/ \E data \in ByteStrings : CallDecode(data)
    \/ \E uuid \in UuidArgs : CallUUID(uuid)
    \/ \E x \in UuidArgs, y \in UuidArgs : CallUuidEq(x, y)
    \/ \E uuid \in UuidArgs, length \in 0..(16 + MaxOffset),
          resizable \in BOOLEAN, offset \in 0..MaxOffset :
          CallPackInto(uuid, length, resizable, offset)
    \/ \E address \in [1..6 -> AddressByteValues], address_type \in 0..3 :
          CallAddressRoundTrip(address, address_type)
    \/ \E packet \in Packets, prefixes \in { <<>>, <<2, 9, 65>>, <<2, 9, 66>> },
          minimum_rssi \in {-110, -80}, active \in BOOLEAN :
          CallParse(packet, prefixes, minimum_rssi, active)

    \/ \E a \in AddressObjects, b \in AddressObjects : CallAddressEq(a, b)
PureSpec == Init /\ [][PureNext]_vars

\* The consumer keeps iterating, the generator's code keeps running and time
\* keeps passing.  Nothing makes the capture process write another line.
FairSpec ==
    /\ Spec
    /\ WF_vars(Tick /\ UNCHANGED bvars)
    /\ \A g \in Gens : WF_vars(GenStep(g))

-----------------------------------------------------------------------------
(* Properties *)

Last(s) == s[Len(s)]

\* generator g yields an entry in this step
Yields(g) ==
    /\ gen'[g].pc \in YieldPcs
    /\ gen[g].pc # gen'[g].pc \/ gen[g].pending # gen'[g].pending

\* the ANY-mode prefix filter, stated on the prefix records and the fields
AnyModeFilter(entry, prefixes) ==
    \/ Len(prefixes) = 0
    \/ \E i \in DOMAIN SeparatePrefixes(prefixes) :
          \E f \in DOMAIN AdvertisementFields(entry) :
             StartsWith(AdvertisementFields(entry)[f],
                        SeparatePrefixes(prefixes)[i])

NoChildRunning ==
    /\ ~Running(hcitool)
    /\ ~Running(hcidump)
    /\ orphans.hcitool = 0
    /\ orphans.hcidump = 0

HandlesReleased == hcitool = "None" /\ hcidump = "None"

\* C1: once stop_scan has returned, a generator that was in flight yields
\* no further entry when it is resumed.
C1_NoYieldAfterStop ==
    [][\A g \in Gens : gen[g].stopped => ~Yields(g)]_vars

\* C2: in the packet-capture backend, when stop_scan returns no child
\* process spawned by scanning is still running and both handles are
\* released.
C2_StopScanLeavesNoChild ==
    [][(hcitool_is_usable = "True" /\ \E probe \in Probes : StopScan(probe))
          => (HandlesReleased' /\ NoChildRunning')]_vars

\* C3: when a packet-capture generator ends by raising an exception, both
\* child processes are over and their handles released.
C3_RaiseReleasesChildren ==
    [][\A g \in Gens :
          (gen[g].pc \in {"hloop", "hread", "hyield"} /\ gen'[g].pc = "raised")
             => (HandlesReleased' /\ NoChildRunning')]_vars

\* C4: in no reachable state are two start_scan generators both scanning.
C4_OneScanAtATime == Cardinality({g \in Gens : InFlight(g)}) <= 1

\* C5: when a library-mediated generator ends because its timeout elapsed,
\* the in-progress flag is false afterwards.
C5_IdleAfterTimeout ==
    [][\A g \in Gens :
          (BleakFinish(g) /\ ~WithinTimeout(g)) => ~scanning_in_progress']_vars

\* C6: a generator started with a finite timeout, whose consumer keeps
\* iterating, eventually ends.
C6_TimedScanEnds ==
    \A g \in Gens :
       (InFlight(g) /\ gen[g].timeout # <<>>) ~> ~InFlight(g)

\* C7: while the cache holds the record of the device with address string
\* s, connect(Address(string=s)) builds its client from that record.
C7_ConnectUsesCache ==
    [][\A a \in ConnectArgs :
          (/\ a.type = RANDOM_STATIC
           /\ StrObj(a.string) \in DOMAIN cached_devices
           /\ Connect(a, TRUE))
             => Last(connections').client.kind = "device"]_vars

\* C8 as stated: every cached record belongs to a device that passed the
\* minimum_rssi filter and the ANY-mode prefix filter of the scan that
\* cached it.
C8_CacheHoldsOnlySurvivors ==
    \A k \in DOMAIN cached_devices :
       LET r == cached_devices[k]
       IN /\ Advert[r.device].rssi >= gen[r.scan].minimum_rssi
          /\ AnyModeFilter(FromBleak(r.device), gen[r.scan].prefixes)

\* C8 amended: every cached record belongs to a device that passed the
\* minimum_rssi filter of the scan that cached it.
C8_CacheHoldsOnlyRssiSurvivors ==
    \A k \in DOMAIN cached_devices :
       LET r == cached_devices[k]
       IN Advert[r.device].rssi >= gen[r.scan].minimum_rssi

\* a cached device that fails the prefix filter of the scan that cached it
C8_Witness ==
    \E k \in DOMAIN cached_devices :
       LET r == cached_devices[k]
       IN /\ Advert[r.device].rssi >= gen[r.scan].minimum_rssi
          /\ ~AnyModeFilter(FromBleak(r.device), gen[r.scan].prefixes)

\* the start_scan called last
LatestScan ==
    CHOOSE g \in Gens \cup {0} :
       /\ g # 0 => gen[g].pc # "none"
       /\ \A h \in Gens : gen[h].pc # "none" => h <= g

C10_YieldedPassesFilters ==
    \A g \in Gens :
       gen[g].pc = "yielded" =>
          /\ gen[g].value[1].rssi >= gen[g].minimum_rssi
          /\ AnyModeFilter(gen[g].value[1], gen[g].prefixes)

\* an entry yielded by a scan with prefixes
C10_Witness ==
    \E g \in Gens : gen[g].pc = "yielded" /\ gen[g].prefixes # <<>>

-----------------------------------------------------------------------------
(* Properties of the connection set and the bridge *)

\* Adapter.connected
Connected == connections # <<>>

\* the Connections whose link is up, in the order they were made
LiveIds == SelectSeq([i \in DOMAIN links |-> i], LAMBDA i : links[i] = "connected")

\* the Connections in Adapter.connections, in the order of the list
ConnectionIds == [i \in DOMAIN connections |-> connections[i].id]

\* C11: disconnect() on a Connection that is already disconnected raises
\* nothing and leaves the connection set as it is.
C11_SecondDisconnectIsNoOp ==
    [][\A id \in 1..MaxLinks :
          (/\ id \in DOMAIN links
           /\ links[id] = "disconnected"
           /\ DisconnectCall(id))
             => (/\ caller'.outcome \in {"nothing", "returned"}
                 /\ connections' = connections)]_vars

\* C12: between calls, adapter.connections holds exactly the Connections
\* returned by a successful connect whose link has not been brought down,
\* each once and in connect order, and adapter.connected is true exactly
\* when there is one.
C12_ConnectionsAreTheLiveOnes ==
    caller.pc = "idle" =>
       /\ ConnectionIds = LiveIds
       /\ Connected <=> LiveIds # <<>>

\* C13: when the connect attempt times out, _connect_async ends with
\* BluetoothError, connect raises it to its caller, and no Connection is
\* appended.
C13_TimedOutConnectAppendsNothing ==
    [][/\ ConnectAsync("timeout")
            => (/\ future'.state = "exception"
                /\ future'.value = "BluetoothError"
                /\ connections' = connections)
       /\ (AwaitResult /\ caller.op = "connect" /\ future.state = "exception")
            => (/\ caller'.outcome = future.value
                /\ caller'.pc = "idle"
                /\ connections' = connections)]_vars

\* connect has raised BluetoothError to its caller
C13_Witness ==
    /\ caller.pc = "idle" /\ caller.op = "connect"
    /\ caller.outcome = "BluetoothError"

\* C14: when _cleanup is over, every disconnect of its copy has been
\* performed (it has returned) and the connection set is empty.
C14_CleanupDisconnectsAll ==
    [][(caller.op = "cleanup" /\ caller.pc # "exited" /\ caller'.pc = "exited")
          => (/\ caller'.outcome = "returned"
              /\ connections' = <<>>)]_vars

\* C15: no step of the worker thread changes the connection set or the
\* device cache.
C15_WorkerLeavesSetAndCache ==
    [][WorkerStep => (/\ connections' = connections
                      /\ cached_devices' = cached_devices)]_vars

\* C16: whenever the constructor has returned, so that a caller can invoke
\* await_bleak, _bleak_loop is set; no coroutine is ever submitted to a
\* missing loop.
C16_LoopSetBeforeAnyCall ==
    /\ caller.pc \in {"idle", "await", "cleanup", "exited"} => bridge.bleak_loop
    /\ future.state # "none" => bridge.bleak_loop
    /\ caller.outcome # "AttributeError"

\* a coroutine has been submitted to the worker's loop
C16_Witness == future.state = "pending" /\ caller.pc = "await"

\* C17: whatever way the wait of await_bleak ends, the caller gets the
\* result or a BluetoothError.
C17_FailuresBecomeBluetoothError ==
    [][(AwaitResult \/ AwaitTimeout)
          => caller'.outcome \in {"nothing", "returned", "BluetoothError"}]_vars

\* C18: no query of the selection made by start_scan or stop_scan raises
\* the configuration error of a forced, unusable packet-capture backend.
C18_NoConfigurationErrorAtScanTime ==
    [][\A probe \in Probes :
          ((\E g \in Gens : Begin(g, probe)) \/ StopScan(probe))
             => UseHcitool(hcitool_is_usable, ble_backend, probe).result
                   # "EnvironmentError"]_vars

\* C19: the capability probe has run at most once, and the latest query of
\* the selection gave what the first query gave.
C19_SelectionDecidedOnce ==
    /\ selection.probes <= 1
    /\ selection.first # "none" => selection.last = selection.first

\* C20: an Adapter() made while the singleton exists raises RuntimeError,
\* and leaves the singleton, its loop and the number of worker threads as
\* they were.
C20_SecondConstructionFails ==
    [][(AdapterInit /\ bridge.adapter # "None")
          => (/\ caller'.outcome = "RuntimeError"
              /\ caller'.pc = caller.pc
              /\ bridge' = bridge)]_vars

\* a second construction has been refused
C20_Witness ==
    /\ caller.outcome = "RuntimeError"
    /\ bridge = Constructed

-----------------------------------------------------------------------------
(* Properties of the value classes *)

\* p is a prefix of f, byte by byte
IsPrefix(p, f) == Len(p) <= Len(f) /\ \A k \in 1..Len(p) : f[k] = p[k]

\* the reference filter: every record (ALL) or at least one record (ANY) is
\* a prefix of at least one field
ReferenceFilter(fields, records, match_all) ==
    IF match_all
    THEN \A i \in DOMAIN records : \E f \in DOMAIN fields : IsPrefix(records[i], fields[f])
    ELSE \E i \in DOMAIN records : \E f \in DOMAIN fields : IsPrefix(records[i], fields[f])

\* C21: matches is True for empty prefixes in both modes, and otherwise
\* equals the reference filter over the prefix records and the fields.
C21_MatchesIsReferenceFilter ==
    call.fn = "matches" =>
       call.result = IF Len(call.prefixes) = 0 THEN TRUE
                     ELSE ReferenceFilter(AdvertisementFields(call.entry),
                                          SeparatePrefixes(call.prefixes),
                                          call.match_all)

\* two records of which only the first matches, in ALL mode: False
C21_Witness ==
    /\ call.fn = "matches" /\ call.match_all /\ ~call.result
    /\ LET records == SeparatePrefixes(call.prefixes)
           fields == AdvertisementFields(call.entry)
       IN /\ Len(records) = 2
          /\ \E f \in DOMAIN fields : IsPrefix(records[1], fields[f])
          /\ ~\E f \in DOMAIN fields : IsPrefix(records[2], fields[f])

\* the dict a mapping stands for, in the form DecodeData returns: every key
\* with its one value
AsDict(m) ==
    [k \in {m[i][1] : i \in DOMAIN m} |->
        <<m[CHOOSE i \in DOMAIN m : m[i][1] = k][2]>>]

\* C22 as stated: for all mappings m with unique type keys,
\* decode(encode(m)) == m.
C22_RoundTripForAllMappings ==
    call.fn = "round_trip" =>
       /\ call.result.outcome = "returned"
       /\ call.result.data_dict = AsDict(call.m)

\* C22: for all mappings m with unique type keys whose values are at most
\* 254 bytes long, decode(encode(m)) == m; with a longer value encode raises
\* ValueError.
C22_RoundTripForFittingValues ==
    call.fn = "round_trip" =>
       IF \A i \in DOMAIN call.m : Len(call.m[i][2]) <= 254
       THEN /\ call.result.outcome = "returned"
            /\ call.result.data_dict = AsDict(call.m)
       ELSE call.result.outcome = "ValueError"

\* a mapping of two items, one of them with an empty value, came back
C22_Witness ==
    /\ call.fn = "round_trip" /\ Len(call.m) = 2
    /\ \E i \in DOMAIN call.m : call.m[i][2] = <<>>
    /\ \E i \in DOMAIN call.m : Len(call.m[i][2]) = 254
    /\ call.result.outcome = "returned"
    /\ DOMAIN call.result.data_dict = {call.m[1][1], call.m[2][1]}

\* C23: decoding a raw advertising byte string never raises, for any byte
\* string, also when the buffer ends right after a non-zero length byte.
C23_DecodeNeverRaises ==
    call.fn = "decode" => call.result.outcome = "returned"

\* C24: UUID(str(UUID(n))) == UUID(n) for every n that is a 16-bit integer,
\* a 32-bit integer, or a 16-byte buffer.
C24_UuidRoundTrip ==
    call.fn = "UUID" =>
       LET n == call.uuid
       IN \/ n.type = "int" /\ IntLe(PyInt(0, 0), n.int)
                              /\ IntLt(n.int, PyInt(65536, 0))
          \/ n.type = "buf" /\ Len(n.buf) = 16
          => call.u.outcome = "returned" /\ call.equal

\* C25: a UUID built from an integer has size 16 for 0 <= n <= 0xFFFF and
\* size 32 for 0x10000 <= n <= 0xFFFFFFFF; in both cases it is a standard
\* UUID whose uuid128 is the base UUID with n in its last four bytes.
C25_NarrowestSizeFromInt ==
    call.fn = "UUID" /\ call.uuid.type = "int"
    /\ IntLe(PyInt(0, 0), call.uuid.int) /\ IntLt(call.uuid.int, PyInt(65536, 0))
    => /\ call.u.outcome = "returned"
       /\ call.u.size = IF IntLt(call.uuid.int, PyInt(1, 0)) THEN 16 ELSE 32
       /\ IsStandardUuid(call.u)
       /\ call.u.uuid128
            = SubSeq(BASE_STANDARD_UUID, 1, 12) \o ToBytes(call.uuid.int)

\* C26: a 16-bit UUID and a 128-bit UUID with the same uuid128 bytes
\* compare equal.
C26_SameValueDifferentSizeEqual ==
    call.fn = "eq" /\ call.self.size = 16 /\ call.other.size = 128
    /\ call.self.uuid128 = call.other.uuid128
    => call.result

\* C27: if len(b) - o >= size/8, pack_into(b, o) writes the size/8 bytes of
\* the minimal encoding at b[o .. o + size/8 - 1] and leaves every other
\* byte and len(b) unchanged; otherwise it fails with IndexError and leaves
\* b unchanged.
C27_PackIntoWritesAtOffset ==
    call.fn = "pack_into" =>
       LET byte_size == call.self.size \div 8
           b == call.buffer
           o == call.offset
           after == call.result.buffer
       IN IF Len(b) - o >= byte_size
          THEN /\ call.result.outcome = "returned"
               /\ Len(after) = Len(b)
               /\ SubSeq(after, o + 1, o + byte_size)
                    = (IF byte_size = 16 THEN call.self.uuid128
                       ELSE SubSeq(call.self.uuid128, 13, 12 + byte_size))
               /\ \A i \in 1..Len(b) :
                     (i <= o \/ i > o + byte_size) => after[i] = b[i]
          ELSE call.result.outcome = "IndexError" /\ after = b

\* C28: Address(a, t), its .string, and Address(string=that string,
\* address_type=t) give an address equal to the original, with the same type
\* and the same address bytes.
C28_AddressRoundTrip ==
    call.fn = "address_round_trip" =>
       /\ call.b.outcome = "returned"
       /\ call.b_eq_a = "True" /\ call.a_eq_b = "True"
       /\ call.b.type = call.address_type
       /\ call.b_bytes.outcome = "returned"
       /\ call.b_bytes.bytes = call.address

\* an address whose bytes are not the same read backwards came back
C28_Witness ==
    /\ call.fn = "address_round_trip"
    /\ call.address[1] # call.address[6]
    /\ call.address_type = RANDOM_STATIC
    /\ call.a_eq_b = "True" /\ call.b_eq_a = "True"
    /\ call.b_bytes.bytes = call.address

\* an advertising-report packet with one report
OneReport(packet) ==
    /\ packet.le_meta_event
    /\ IntHex(packet.subevent_code) = 2
    /\ IntHex(packet.num_reports) = 1

\* the rule of C29 for a packet with one report and the rssi byte b: rssi
\* is b up to 127 and b - 256 above; the packet is dropped when rssi is 127
\* or below minimum_rssi, and otherwise, when it is no scan response of a
\* passive scan and the filter is satisfied, it is yielded with that rssi
RssiRule ==
    call.fn = "parse" /\ OneReport(call.packet) =>
       LET b == IntHex(call.packet.rssi)
           rssi == IF b <= 127 THEN b ELSE b - 256
       IN IF rssi = 127 \/ rssi < call.minimum_rssi
          THEN call.result.outcome = "None"
          ELSE IntHex(call.packet.event_type) # 4 \/ call.active
               => IF Len(call.prefixes) = 0
                     \/ ReferenceFilter(FieldsFrom(call.packet.data, 0),
                                        SeparatePrefixes(call.prefixes), FALSE)
                  THEN call.result.outcome = "entry" /\ call.result.rssi = rssi
                  ELSE call.result.outcome = "None"

\* C29 as stated: the rule, and b = 0x9A is dropped with minimum_rssi = -80
\* and yielded with rssi == -100 with minimum_rssi = -110.
C29_Rssi9AIsMinus100 ==
    /\ RssiRule
    /\ call.fn = "parse" /\ OneReport(call.packet)
       /\ IntHex(call.packet.rssi) = 154
       => IF call.minimum_rssi = -80 THEN call.result.outcome = "None"
          ELSE call.result.outcome = "entry" => call.result.rssi = -100

\* C29: the rule, and b = 0x9A is dropped with minimum_rssi = -80 and
\* yielded with rssi == -102 with minimum_rssi = -110.
C29_Rssi9AIsMinus102 ==
    /\ RssiRule
    /\ call.fn = "parse" /\ OneReport(call.packet)
       /\ IntHex(call.packet.rssi) = 154
       => IF call.minimum_rssi = -80 THEN call.result.outcome = "None"
          ELSE call.result.outcome = "entry" => call.result.rssi = -102

\* the packet with the rssi byte 0x9A is yielded at the threshold -110
C29_Witness ==
    /\ call.fn = "parse" /\ OneReport(call.packet)
    /\ IntHex(call.packet.rssi) = 154
    /\ call.minimum_rssi = -110
    /\ call.result.outcome = "entry" /\ call.result.rssi = -102

\* C30 as stated: an LE meta-event packet whose subevent is not 0x02, or
\* whose report count is greater than one, fails with NotImplementedError.
C30_OtherSubeventFails ==
    call.fn = "parse" /\ call.packet.le_meta_event
    /\ (IntHex(call.packet.subevent_code) # 2 \/ IntHex(call.packet.num_reports) > 1)
    => call.result.outcome = "NotImplementedError"

\* C30: an advertising-report packet (subevent 0x02) whose report count is
\* greater than one fails with NotImplementedError; an LE meta-event packet
\* with another subevent is dropped silently, whatever its report count.
C30_OnlyPackedReportsFail ==
    call.fn = "parse" /\ call.packet.le_meta_event
    => IF IntHex(call.packet.subevent_code) # 2
       THEN call.result.outcome = "None"
       ELSE IntHex(call.packet.num_reports) > 1
            => call.result.outcome = "NotImplementedError"

\* a packet of another subevent was dropped, with a report count above one
C30_Witness ==
    /\ call.fn = "parse" /\ call.packet.le_meta_event
    /\ IntHex(call.packet.subevent_code) = 13
    /\ IntHex(call.packet.num_reports) = 2
    /\ call.result.outcome = "None"

-----------------------------------------------------------------------------
(* Properties of the capture reader and of the child processes *)

\* C31: a malformed capture packet other than a packed multi-report does
\* not abort the scan: when it is flushed the buffer is discarded and the
\* generator goes on reading.
C31_MalformedPacketIsSkipped ==
    [][\A g \in Gens :
          (/\ HciRead(g)
           /\ stdout \in Lines \ {"cont"}
           /\ gen[g].buffered # <<>>
           /\ Head(gen[g].buffered) = "bad")
          => (gen'[g].pc = "hloop" /\ gen'[g].buffered = <<stdout>>)]_vars

\* C32: when the capture process has exited and its output is at end of
\* file, the generator that reads it raises BluetoothError.
C32_PrematureExitIsBluetoothError ==
    [][\A g \in Gens :
          (/\ HciRead(g)
           /\ hcidump = "exited"
           /\ stdout \in {"empty", "fresh"})
          => (gen'[g].pc = "raised" /\ gen'[g].error = "BluetoothError")]_vars

\* C33: the buffer of a generator, which is what it hands to the parser at
\* the next flush, is one line that begins a packet followed by
\* continuation lines only.
C33_BufferIsOnePacket ==
    \A g \in Gens :
       LET buffered == gen[g].buffered
       IN buffered # <<>> =>
             /\ buffered[1] # "cont"
             /\ \A i \in 2..Len(buffered) : buffered[i] = "cont"

\* C39: at most one capture process and at most one discovery process
\* spawned by the adapter are alive.
C39_AtMostOneChildOfEachKind ==
    /\ orphans.hcidump + (IF Running(hcidump) THEN 1 ELSE 0) <= 1
    /\ orphans.hcitool + (IF Running(hcitool) THEN 1 ELSE 0) <= 1

\* C40: a packet-capture generator suspended at a yield and resumed after
\* stop_scan has returned ends normally.
C40_ResumeAfterStopEnds ==
    [][\A g \in Gens :
          (gen[g].pc = "hyield" /\ gen[g].stopped /\ HciResume(g))
          => gen'[g].pc = "done"]_vars

\* C38: with ble_backend 'hcitool' on a host whose hcitool is unusable, once
\* a query of the selection has raised the configuration error, the next
\* query made by start_scan or stop_scan raises it again.
C38_ConfigurationErrorPersists ==
    [][\A probe \in Probes :
          (/\ (\E g \in Gens : Begin(g, probe)) \/ StopScan(probe)
           /\ ble_backend = "hcitool"
           /\ selection.last = "EnvironmentError")
          => UseHcitool(hcitool_is_usable, ble_backend, probe).result
                = "EnvironmentError"]_vars

\* C35: for any two addresses, however built and whichever property has
\* been read, a == b and b == a give the same answer and neither raises.
C35_AddressEqualityIsSymmetric ==
    call.fn = "address_eq" =>
       /\ call.a_eq_b = call.b_eq_a
       /\ call.a_eq_b # "ValueError" /\ call.b_eq_a # "ValueError"

-----------------------------------------------------------------------------
(* Properties of PacketBuffer, of Address equality and of the scan window *)

\* C34: the queue holds packets in the order they arrived, and a packet
\* leaves it only as the oldest one, either copied into the caller's buffer
\* by readinto or displaced by the callback; in particular a readinto whose
\* destination is too small writes nothing and leaves the packet queued.
C34_PacketsLeaveByDeliveryOrDisplacement ==
    /\ [](\A i, j \in DOMAIN pb.queue : i < j => pb.queue[i].id < pb.queue[j].id)
    /\ [][\A i \in DOMAIN pb.queue :
             (\A j \in DOMAIN pb'.queue : pb'.queue[j] # pb.queue[i])
             => /\ i = 1
                /\ \/ ReadintoGet /\ pb'.rd.wrote = pb.queue[i].id
                   \/ NotifyGet]_vars

\* C37: whatever the interleaving with readinto, the callback raises neither
\* queue.Empty nor queue.Full, the queue never holds more than buffer_size
\* packets, and the callback removes a packet only from a queue that is full.
C37_CallbackDiscardsOnlyWhenFull ==
    /\ [](pb.cb.outcome \notin {"Empty", "Full"})
    /\ [](Len(pb.queue) <= pb.buffer_size)
    /\ [][(NotifyGet /\ pb'.cb.pc = "put") => Len(pb.queue) = pb.buffer_size]_vars

\* C36: with stop_scan running on another thread, no step of the window
\* raises, the scanner stopped is the scanner this window started, and
\* between windows no scanner is left started.
C36_WindowSurvivesStopScan ==
    /\ [](scan_run.outcome # "AttributeError")
    /\ [][RunStop => scan_run.handle = scan_run.started]_vars
    /\ [](scan_run.pc = "idle" =>
             \A i \in DOMAIN scan_run.objs : scan_run.objs[i] # "started")

====
